---- MODULE Spec2Model ----
(***************************************************************************)
(* Task coordination core of the agent-swarm orchestrator:                 *)
(*   src/src/orchestrator/state_machine.py  (TaskStateMachine)             *)
(*   src/src/orchestrator/task_router.py    (TaskRouter)                   *)
(*                                                                         *)
(* The store is Redis.  Every awaited Redis command is one atomic step;    *)
(* the synchronous Python between two awaits runs together with the step   *)
(* that delivers its input.  Coroutines of concurrently processed requests *)
(* interleave at these steps and nowhere else.                             *)
(***************************************************************************)
EXTENDS Integers, Sequences, FiniteSets, TLC

\* ------------------------------------------------------------------ bounds

\* Operations (API calls, webhooks) started in a behaviour.  Every counter of
\* the model (the clock, the lengths of the histories, retry_count) grows only
\* inside an operation, so this bounds them all.
MaxOps == 2

\* Coroutines that may be in flight at once (two webhooks / API requests).
Procs == {1, 2}
\* Issue numbers; the task id is "issue-<n>", so n stands for the task id.
Issues == {1}
Repos == {"r1", "r2"}
Humans == {"alice", "bob"}
PlanPayloads == {"planA", "planB"}
\* Operations started in a behaviour of the file-lock registry.
MaxLockOps == 3
\* Coroutines calling the FileCoordinator at once.
LockProcs == {1, 2}
\* Task ids that ask for locks, n for "issue-<n>".
LockTasks == {1, 2}
Paths == {"a", "b"}
FileSets == (SUBSET Paths) \ {{}}

\* ------------------------------------------------------------- TaskState

QUEUED == "queued"
PLANNING == "planning"
PLAN_REVIEW == "plan_review"
APPROVED == "approved"
EXECUTING == "executing"
PR_OPEN == "pr_open"
PR_AGENT_REVIEW == "pr_agent_review"
PR_AGENT_FIX == "pr_agent_fix"
FAILED == "failed"
FIXER_REVIEW == "fixer_review"
HUMAN_ESCALATION == "human_escalation"
COMPLETED == "completed"
ARCHIVED == "archived"
PM_VISION == "pm_vision"
PM_VISION_REVIEW == "pm_vision_review"
PM_BACKLOG == "pm_backlog"
PM_FEATURE_REVIEW == "pm_feature_review"
PM_HANDOFF_PLANNER == "pm_handoff_planner"

TaskState ==
    { QUEUED, PLANNING, PLAN_REVIEW, APPROVED, EXECUTING, PR_OPEN,
      PR_AGENT_REVIEW, PR_AGENT_FIX, FAILED, FIXER_REVIEW, HUMAN_ESCALATION,
      COMPLETED, ARCHIVED, PM_VISION, PM_VISION_REVIEW, PM_BACKLOG,
      PM_FEATURE_REVIEW, PM_HANDOFF_PLANNER }

\* The table of valid successors, as written in the source.
TRANSITIONS(s) ==
    CASE s = QUEUED -> {PLANNING, PM_VISION}
      [] s = PLANNING -> {PLAN_REVIEW}
      [] s = PLAN_REVIEW -> {APPROVED, PLANNING}
      [] s = APPROVED -> {EXECUTING}
      [] s = EXECUTING -> {PR_OPEN, FAILED}
      [] s = PR_OPEN -> {PR_AGENT_REVIEW, PR_AGENT_FIX, COMPLETED, ARCHIVED}
      [] s = PR_AGENT_REVIEW -> {PR_OPEN}
      [] s = PR_AGENT_FIX -> {PR_OPEN}
      [] s = FAILED -> {FIXER_REVIEW}
      [] s = FIXER_REVIEW -> {EXECUTING, HUMAN_ESCALATION}
      [] s = HUMAN_ESCALATION -> {QUEUED, ARCHIVED}
      [] s = COMPLETED -> {}
      [] s = ARCHIVED -> {}
      [] s = PM_VISION -> {PM_VISION_REVIEW}
      [] s = PM_VISION_REVIEW -> {PM_VISION, PM_BACKLOG}
      [] s = PM_BACKLOG -> {PM_FEATURE_REVIEW, PM_VISION}
      [] s = PM_FEATURE_REVIEW -> {PM_BACKLOG, PM_HANDOFF_PLANNER}
      [] s = PM_HANDOFF_PLANNER -> {PLANNING}
      [] OTHER -> {}

\* `new_state in (TaskState.COMPLETED, TaskState.ARCHIVED)`
IsTerminal(s) == s \in {COMPLETED, ARCHIVED}

\* ------------------------------------------------------------------ Task

\* None for the optional fields: 0 for a datetime or a number (the clock
\* starts at 1), "none" for a string.
None == 0

\* The value of GET task:<id> when the key is absent.
NoTask ==
    [ state |-> "none", repo |-> "none", branch |-> "none", pr_number |-> None,
      created_at |-> None, updated_at |-> None, first_plan_at |-> None,
      approved_at |-> None, pr_opened_at |-> None, completed_at |-> None,
      plan_versions |-> <<>>, current_plan_version |-> 0, decisions |-> <<>>,
      last_error |-> "none", retry_count |-> 0 ]

\* Task(id=..., repo=repo, state=QUEUED, created_at=now, updated_at=now),
\* every other field at its class default.
Task(repo, now) ==
    [ NoTask EXCEPT !.state = QUEUED, !.repo = repo,
                    !.created_at = now, !.updated_at = now ]

\* Decision(timestamp, type, human, action, comment, metadata).
Decision(type, human, comment) ==
    [ type |-> type, human |-> human, comment |-> comment ]

\* --------------------------------------------------------------- state

VARIABLES
    store,      \* Redis keys task:issue-<n>: [Issues -> Task], NoTask if absent
    active,     \* Redis set tasks:active
    archived,   \* Redis set tasks:archived
    clock,      \* the last value datetime.now() returned
    proc,       \* per coroutine: where it is and its local variables
    budget,     \* operations that may still be started
    locks,      \* Redis keys lock:<repo>:<path>: the holder, None if absent
    lproc       \* per coroutine calling the FileCoordinator: its locals

vars == <<store, active, archived, clock, proc, budget, locks, lproc>>

\* What the calls of the FileCoordinator leave alone.
taskVars == <<store, active, archived, clock, proc>>

\* One call a coroutine still has to make: a state-machine call or a call of
\* an external collaborator, with its arguments.
\* try: the call stands inside the try block of _create_pr.
NoIns ==
    [ op |-> "none", n |-> 0, repo |-> "none", to |-> "none", meta |-> "none",
      plan |-> "none", type |-> "none", human |-> "none", comment |-> <<>>,
      data |-> <<>>, try |-> FALSE ]

CreateIns(repo, n) == [NoIns EXCEPT !.op = "create", !.repo = repo, !.n = n]

TransitionIns(n, to, meta, plan) ==
    [NoIns EXCEPT !.op = "transition", !.n = n, !.to = to, !.meta = meta,
                  !.plan = plan]

RecordIns(n, type, human, comment) ==
    [NoIns EXCEPT !.op = "record", !.n = n, !.type = type, !.human = human,
                  !.comment = comment]

\* A coroutine that is not running; err is how its last operation ended and
\* seen what its last read-only request returned.
IdleProc(err, seen) ==
    [ pc |-> "idle", cur |-> NoIns, task |-> NoTask, ids |-> {},
      seen |-> seen, err |-> err, todo |-> <<>> ]

\* The first Redis command (or external call) of each kind of call.
FirstPc(op) ==
    CASE op = "create" -> "create_set"
      [] op = "transition" -> "transition_get"
      [] op = "record" -> "decision_get"
      [] op = "get" -> "get_task"
      [] OTHER -> op

\* Control enters call `ins` of coroutine record pr.  create_task builds its
\* Task, reading the clock, before its first await.
Started(ins, pr, now) ==
    [ pr EXCEPT !.pc = FirstPc(ins.op), !.cur = ins,
                !.task = IF ins.op = "create" THEN Task(ins.repo, now)
                         ELSE NoTask ]

\* The current call of pr returns: control passes to the next call of the
\* handler, or the operation is over.
Returned(pr, now) ==
    IF pr.todo = <<>> THEN IdleProc("none", pr.seen)
    ELSE Started(Head(pr.todo), [pr EXCEPT !.todo = Tail(pr.todo)], now)

\* Whether returning from the current call reads the clock.
ReturnTicks(pr) == pr.todo # <<>> /\ Head(pr.todo).op = "create"

\* Coroutine p goes on as record pr says, with the next call of pr.todo.
Run(p, pr) ==
    /\ proc' = [proc EXCEPT ![p] = Returned(pr, clock + 1)]
    /\ clock' = IF ReturnTicks(pr) THEN clock + 1 ELSE clock

\* A normal return of p's current call.
Return(p) == Run(p, proc[p])

\* The calls of `todo` after the leading ones that stand in the try block.
RECURSIVE AfterTry(_)
AfterTry(todo) ==
    IF todo # <<>> /\ Head(todo).try THEN AfterTry(Tail(todo)) ELSE todo

\* _create_pr, `except Exception`: the fallback comment.
FallbackComment(n) ==
    [NoIns EXCEPT !.op = "github", !.n = n, !.type = "create_issue_comment"]

\* An exception leaves p's current call: inside the try block of _create_pr
\* the except clause takes over, anywhere else it leaves the whole handler.
Raise(p, err) ==
    IF proc[p].cur.try
        THEN Run(p, [proc[p] EXCEPT !.todo =
                        <<FallbackComment(proc[p].cur.n)>> \o AfterTry(@)])
        ELSE /\ proc' = [proc EXCEPT ![p] = IdleProc(err, {})]
             /\ clock' = clock

\* ------------------------------------------------- TaskStateMachine

\* The timeline update with first_plan_at assigned on every entry to
\* PLAN_REVIEW.
TimelineUpdatedEveryPlan(task, new_state, now) ==
    IF new_state = PLAN_REVIEW
        THEN [task EXCEPT !.first_plan_at = now]
    ELSE IF new_state = APPROVED
        THEN [task EXCEPT !.approved_at = now]
    ELSE IF new_state = PR_OPEN /\ task.pr_opened_at = None
        THEN [task EXCEPT !.pr_opened_at = now]
    ELSE IF IsTerminal(new_state)
        THEN [task EXCEPT !.completed_at = now]
    ELSE task

\* transition(), the synchronous part between the read and the write:
\* state, updated_at, the timeline fields, then the metadata.
TimelineUpdated(task, new_state, now) ==
    IF new_state = PLAN_REVIEW /\ task.first_plan_at = None
        THEN [task EXCEPT !.first_plan_at = now]
    ELSE IF new_state = APPROVED
        THEN [task EXCEPT !.approved_at = now]
    ELSE IF new_state = PR_OPEN /\ task.pr_opened_at = None
        THEN [task EXCEPT !.pr_opened_at = now]
    ELSE IF IsTerminal(new_state)
        THEN [task EXCEPT !.completed_at = now]
    ELSE task

\* The plan appended, the cursor left where it was.
PlanAppendedOnly(task, plan) ==
    [task EXCEPT !.plan_versions = Append(@, plan)]

\* `if "plan" in metadata`
PlanApplied(task, plan) ==
    LET versions == Append(task.plan_versions, plan)
    IN  [task EXCEPT !.plan_versions = versions,
                     !.current_plan_version = Len(versions)]

\* The metadata applied with retry_count left alone.
MetadataAppliedRetryKept(task, meta, plan, n) ==
    CASE meta = "plan" -> PlanApplied(task, plan)
      [] meta = "pr" -> [task EXCEPT !.pr_number = n, !.branch = "agent"]
      [] meta = "error" -> [task EXCEPT !.last_error = "error"]
      [] OTHER -> task

\* The metadata dictionaries the callers pass: none, {"plan": p},
\* {"pr_number": k, "branch": b}, {"error": e}.
MetadataApplied(task, meta, plan, n) ==
    CASE meta = "plan" -> PlanApplied(task, plan)
      [] meta = "pr" -> [task EXCEPT !.pr_number = n, !.branch = "agent"]
      [] meta = "error" -> [task EXCEPT !.last_error = "error",
                                        !.retry_count = @ + 1]
      [] OTHER -> task

Transitioned(task, ins, now) ==
    MetadataApplied(
        TimelineUpdated([task EXCEPT !.state = ins.to, !.updated_at = now],
                        ins.to, now),
        ins.meta, ins.plan, ins.n)

\* record_decision with the decision appended and updated_at left alone.
DecidedUntimed(task, ins, now) ==
    [ task EXCEPT
        !.decisions = Append(@, Decision(ins.type, ins.human, ins.comment)) ]

\* record_decision(), the synchronous part between the read and the write.
Decided(task, ins, now) ==
    [ task EXCEPT
        !.decisions = Append(@, Decision(ins.type, ins.human, ins.comment)),
        !.updated_at = now ]

\* create_task: r.set(task:<id>, task)
CreateTaskSet(p) ==
    /\ proc[p].pc = "create_set"
    /\ store' = [store EXCEPT ![proc[p].cur.n] = proc[p].task]
    /\ proc' = [proc EXCEPT ![p].pc = "create_sadd"]
    /\ UNCHANGED <<active, archived, clock, budget, locks, lproc>>

\* create_task: r.sadd("tasks:active", id); return task
CreateTaskSadd(p) ==
    /\ proc[p].pc = "create_sadd"
    /\ active' = active \cup {proc[p].cur.n}
    /\ Return(p)
    /\ UNCHANGED <<store, archived, budget, locks, lproc>>

\* transition without its validity check.
DoTransitionGetUnchecked(p, pr) ==
    LET task == store[pr.cur.n]
    IN  IF task = NoTask THEN Raise(p, "TaskNotFound")
        ELSE /\ proc' = [proc EXCEPT ![p] =
                    [pr EXCEPT !.pc = "transition_set",
                               !.task = Transitioned(task, pr.cur, clock + 1)]]
             /\ clock' = clock + 1

\* transition: get_task, the not-found and validity checks, and the update of
\* the local Task object.
DoTransitionGet(p, pr) ==
    LET task == store[pr.cur.n]
    IN  IF task = NoTask THEN Raise(p, "TaskNotFound")
        ELSE IF pr.cur.to \notin TRANSITIONS(task.state)
            THEN Raise(p, "InvalidTransition")
        ELSE /\ proc' = [proc EXCEPT ![p] =
                    [pr EXCEPT !.pc = "transition_set",
                               !.task = Transitioned(task, pr.cur, clock + 1)]]
             /\ clock' = clock + 1

TransitionGet(p) ==
    /\ proc[p].pc = "transition_get"
    /\ DoTransitionGet(p, proc[p])
    /\ UNCHANGED <<store, active, archived, budget, locks, lproc>>

\* transition: r.set(task:<id>, task); a non-terminal transition returns.
TransitionSet(p) ==
    /\ proc[p].pc = "transition_set"
    /\ store' = [store EXCEPT ![proc[p].cur.n] = proc[p].task]
    /\ IF IsTerminal(proc[p].cur.to)
          THEN /\ proc' = [proc EXCEPT ![p].pc = "transition_srem"]
               /\ clock' = clock
          ELSE Return(p)
    /\ UNCHANGED <<active, archived, budget, locks, lproc>>

\* transition: r.srem("tasks:active", id)
TransitionSrem(p) ==
    /\ proc[p].pc = "transition_srem"
    /\ active' = active \ {proc[p].cur.n}
    /\ proc' = [proc EXCEPT ![p].pc = "transition_sadd"]
    /\ UNCHANGED <<store, archived, clock, budget, locks, lproc>>

\* transition: r.sadd("tasks:archived", id); return task
TransitionSadd(p) ==
    /\ proc[p].pc = "transition_sadd"
    /\ archived' = archived \cup {proc[p].cur.n}
    /\ Return(p)
    /\ UNCHANGED <<store, active, budget, locks, lproc>>

\* record_decision: get_task, the not-found check, the append.
DoRecordDecisionGet(p, pr) ==
    LET task == store[pr.cur.n]
    IN  IF task = NoTask THEN Raise(p, "TaskNotFound")
        ELSE /\ proc' = [proc EXCEPT ![p] =
                    [pr EXCEPT !.pc = "decision_set",
                               !.task = Decided(task, pr.cur, clock + 1)]]
             /\ clock' = clock + 1

RecordDecisionGet(p) ==
    /\ proc[p].pc = "decision_get"
    /\ DoRecordDecisionGet(p, proc[p])
    /\ UNCHANGED <<store, active, archived, budget, locks, lproc>>

\* record_decision: r.set(task:<id>, task); return task
RecordDecisionSet(p) ==
    /\ proc[p].pc = "decision_set"
    /\ store' = [store EXCEPT ![proc[p].cur.n] = proc[p].task]
    /\ Return(p)
    /\ UNCHANGED <<active, archived, budget, locks, lproc>>

\* list_active_tasks: one get_task of the loop over the ids SMEMBERS
\* returned; a key that is gone is skipped.  After the last one it returns.
ListActiveTasksGet(p) ==
    /\ proc[p].pc = "list_get"
    /\ IF proc[p].ids = {} THEN Return(p)
       ELSE \E id \in proc[p].ids :
              /\ proc' = [proc EXCEPT
                    ![p].ids = @ \ {id},
                    ![p].seen = IF store[id] = NoTask THEN @
                                ELSE @ \cup {<<id, store[id].state>>}]
              /\ clock' = clock
    /\ UNCHANGED <<store, active, archived, budget, locks, lproc>>

\* Any Redis command may fail instead of executing (connection error): the
\* exception leaves the call at that await.
StoreCommandPcs ==
    { "create_set", "create_sadd", "transition_get", "transition_set",
      "transition_srem", "transition_sadd", "decision_get", "decision_set",
      "list_get", "get_task" }

StoreUnavailable(p) ==
    /\ proc[p].pc \in StoreCommandPcs
    /\ Raise(p, "StoreUnavailable")
    /\ UNCHANGED <<store, active, archived, budget, locks, lproc>>

\* --------------------------------------------- direct calls of the API

\* An operation starts on a coroutine that is free; of two free ones the
\* first takes it (they are interchangeable).
CanStart(p) ==
    /\ proc[p].pc = "idle"
    /\ budget > 0
    /\ \A q \in Procs : q < p => proc[q].pc # "idle"

\* create_task(repo, n, title)
CallCreateTask(p, repo, n) ==
    /\ CanStart(p)
    /\ budget' = budget - 1
    /\ UNCHANGED <<locks, lproc>>
    /\ proc' = [proc EXCEPT ![p] =
            Started(CreateIns(repo, n), IdleProc("none", {}), clock + 1)]
    /\ clock' = clock + 1
    /\ UNCHANGED <<store, active, archived>>

\* transition(id, new_state, metadata); the call and its first Redis command.
CallTransition(p, n, to, meta, plan) ==
    /\ CanStart(p)
    /\ budget' = budget - 1
    /\ UNCHANGED <<locks, lproc>>
    /\ DoTransitionGet(p, Started(TransitionIns(n, to, meta, plan),
                                  IdleProc("none", {}), clock))
    /\ UNCHANGED <<store, active, archived>>

\* record_decision(id, type, human, action); the call and its first command.
CallRecordDecision(p, n, type, human) ==
    /\ CanStart(p)
    /\ budget' = budget - 1
    /\ UNCHANGED <<locks, lproc>>
    /\ DoRecordDecisionGet(p, Started(RecordIns(n, type, human, <<>>),
                                      IdleProc("none", {}), clock))
    /\ UNCHANGED <<store, active, archived>>

\* list_active_tasks(): the call and r.smembers("tasks:active")
CallListActiveTasks(p) ==
    /\ CanStart(p)
    /\ budget' = budget - 1
    /\ UNCHANGED <<locks, lproc>>
    /\ proc' = [proc EXCEPT ![p] =
            [IdleProc("none", {}) EXCEPT !.pc = "list_get", !.ids = active]]
    /\ UNCHANGED <<store, active, archived, clock>>

Metas == {"none", "plan", "pr", "error"}

\* ------------------------------------------------------------ TaskRouter

AGENT_LABELS == {"agent-ok", "good-first-issue"}

\* Text is a sequence of tokens: a token is a maximal run of word characters
\* ([A-Za-z0-9_]+) or one other character.  A comment body is a sequence of
\* lines, a line a sequence of tokens.
NonWord == {"/", "-", " "}

\* The alternatives of COMMAND_PATTERN, in the order the pattern lists them.
CommandVerbs ==
    << <<"approve">>, <<"agent", "-", "review">>, <<"agent", "-", "fix">>,
       <<"agent", "-", "plan">>, <<"approve", "-", "plan">>,
       <<"agent", "-", "stop">>, <<"agent", "-", "pm">>,
       <<"approve", "-", "vision">>, <<"refine", "-", "feature">>,
       <<"approve", "-", "feature">>, <<"add", "-", "feature">>,
       <<"prioritize">>, <<"handoff">> >>

IsPrefixOf(a, b) == Len(a) <= Len(b) /\ SubSeq(b, 1, Len(a)) = a

\* Alternative i matches at the start of `rest` and a word boundary (\b)
\* follows it: the end of the line or a non-word character.
VerbMatches(i, rest) ==
    /\ IsPrefixOf(CommandVerbs[i], rest)
    /\ Len(rest) > Len(CommandVerbs[i]) =>
            rest[Len(CommandVerbs[i]) + 1] \in NonWord

\* str.strip() of the argument text.
RECURSIVE LStrip(_)
LStrip(t) == IF t # <<>> /\ Head(t) = " " THEN LStrip(Tail(t)) ELSE t

RECURSIVE RStrip(_)
RStrip(t) ==
    IF t # <<>> /\ t[Len(t)] = " " THEN RStrip(SubSeq(t, 1, Len(t) - 1)) ELSE t

\* The text with only its trailing blanks removed.
StripRight(t) == RStrip(t)

Strip(t) == RStrip(LStrip(t))

\* COMMAND_PATTERN on one line: ^/(alt1|alt2|...)\b(.*)$ takes the first
\* alternative, in the pattern's order, that matches.  <<>> if none does,
\* else <<(command, args)>> with args stripped as handle_comment_event does.
LineCommand(line) ==
    IF line = <<>> \/ Head(line) # "/" THEN <<>>
    ELSE LET rest == Tail(line)
             hits == {i \in 1..Len(CommandVerbs) : VerbMatches(i, rest)}
         IN  IF hits = {} THEN <<>>
             ELSE LET i == CHOOSE j \in hits : \A k \in hits : j <= k
                  IN  << [ command |-> CommandVerbs[i],
                           args |-> Strip(SubSeq(rest, Len(CommandVerbs[i]) + 1,
                                                 Len(rest))) ] >>

\* COMMAND_PATTERN.findall(body), re.MULTILINE: the commands of the lines,
\* in textual order.
RECURSIVE FindAll(_)
FindAll(body) ==
    IF body = <<>> THEN <<>> ELSE LineCommand(Head(body)) \o FindAll(Tail(body))

\* str.lower() on the tokens the payloads use.
Lower(tok) ==
    CASE tok = "Backlog" -> "backlog"
      [] tok = "LGTM" -> "lgtm"
      [] OTHER -> tok

\* str.split(maxsplit=1)[0] of a stripped text: the tokens before the first
\* blank.
RECURSIVE FirstWord(_)
FirstWord(t) ==
    IF t = <<>> \/ Head(t) = " " THEN <<>>
    ELSE <<Head(t)>> \o FirstWord(Tail(t))

\* _handle_agent_pm: mode = "vision", or the first word of args, lowered.
PmMode(args) ==
    IF Strip(args) = <<>> THEN <<"vision">>
    ELSE [i \in 1..Len(FirstWord(Strip(args))) |->
            Lower(FirstWord(Strip(args))[i])]

GitHubIns(n, call) == [NoIns EXCEPT !.op = "github", !.n = n, !.type = call]

AgentIns(n, action) == [NoIns EXCEPT !.op = "agent", !.n = n, !.type = action]

GetIns(n) == [NoIns EXCEPT !.op = "get", !.n = n]

InTry(ins) == [ins EXCEPT !.try = TRUE]

\* _trigger_planning up to the result of the worker.
TriggerPlanning(n) ==
    << TransitionIns(n, PLANNING, "none", "none"),
       GitHubIns(n, "set_agent_label"),
       AgentIns(n, "plan") >>

\* _trigger_planning, `if result.success`.
PlanningSucceeded(n, plan) ==
    << GitHubIns(n, "create_issue_comment"),
       TransitionIns(n, PLAN_REVIEW, "plan", plan),
       GitHubIns(n, "set_agent_label") >>

\* _trigger_execution without its transition to EXECUTING.
TriggerExecutionUnmoved(n) ==
    << GitHubIns(n, "set_agent_label"),
       GetIns(n),
       AgentIns(n, "implement") >>

\* _trigger_execution up to the result of the worker.
TriggerExecution(n) ==
    << TransitionIns(n, EXECUTING, "none", "none"),
       GitHubIns(n, "set_agent_label"),
       GetIns(n),
       AgentIns(n, "implement") >>

\* _create_pr, the try block.
CreatePr(n) ==
    << InTry(GitHubIns(n, "create_pull_request")),
       InTry(TransitionIns(n, PR_OPEN, "pr", "none")),
       InTry(GitHubIns(n, "set_agent_label")) >>

\* _trigger_execution, the else branch of `if result.success`.
ExecutionFailed(n) ==
    << TransitionIns(n, FAILED, "error", "none"),
       GitHubIns(n, "set_agent_label") >>

\* The calls one command handler makes, in order, as long as none raises.
\* `task` is the handler's argument (NoTask for None): what
\* handle_comment_event read before its loop over the commands.
HandleCommand(cmd, task, repo, n, author) ==
    LET c == cmd.command
        args == cmd.args
        none == task = NoTask
        rec(type, comment) == <<RecordIns(n, type, author, comment)>>
        recd(type, data) ==
            <<[RecordIns(n, type, author, <<>>) EXCEPT !.data = data]>>
        go(to) == <<TransitionIns(n, to, "none", "none")>>
    IN  CASE c = <<"approve">> ->
               IF none \/ task.state # PLAN_REVIEW THEN <<>>
               ELSE rec("plan_approval", args) \o go(APPROVED)
                    \o TriggerExecution(n)
          [] c = <<"agent", "-", "review">> ->
               IF none \/ task.state # PR_OPEN THEN <<>>
               ELSE rec("pr_review_delegation", args) \o go(PR_AGENT_REVIEW)
          [] c = <<"agent", "-", "fix">> ->
               IF none \/ task.state # PR_OPEN THEN <<>>
               ELSE rec("pr_fix_delegation", args) \o go(PR_AGENT_FIX)
          [] c = <<"agent", "-", "plan">> ->
               (IF none THEN <<CreateIns(repo, n)>> ELSE <<>>)
               \o rec("planner_requested", <<>>)
          [] c = <<"approve", "-", "plan">> ->
               IF none THEN <<>> ELSE rec("planner_approval", <<>>)
          [] c = <<"agent", "-", "stop">> ->
               IF none THEN <<>> ELSE rec("agent_stop", <<>>)
          [] c = <<"agent", "-", "pm">> ->
               (IF none THEN <<CreateIns(repo, n)>> ELSE <<>>)
               \o recd("pm_invoked", PmMode(args))
               \o (IF none \/ task.state = QUEUED THEN go(PM_VISION) ELSE <<>>)
          [] c = <<"approve", "-", "vision">> ->
               IF none \/ task.state # PM_VISION_REVIEW THEN <<>>
               ELSE rec("vision_approval", <<>>) \o go(PM_BACKLOG)
          [] c = <<"refine", "-", "feature">> ->
               IF none \/ task.state # PM_FEATURE_REVIEW THEN <<>>
               ELSE rec("feature_feedback", args)
          [] c = <<"approve", "-", "feature">> ->
               IF none \/ task.state # PM_FEATURE_REVIEW THEN <<>>
               ELSE rec("feature_approval", <<>>)
          [] c = <<"add", "-", "feature">> ->
               IF none \/ task.state \notin {PM_BACKLOG, PM_FEATURE_REVIEW}
               THEN <<>>
               ELSE rec("feature_added", args)
          [] c = <<"prioritize">> ->
               IF none \/ task.state \notin {PM_BACKLOG, PM_FEATURE_REVIEW}
               THEN <<>>
               ELSE rec("prioritization", <<>>)
          [] c = <<"handoff">> ->
               IF none \/ task.state # PM_FEATURE_REVIEW THEN <<>>
               ELSE recd("pm_handoff", args) \o go(PM_HANDOFF_PLANNER)
                    \o go(PLANNING)
          [] OTHER -> <<>>

\* The loop of handle_comment_event over the commands: every handler gets
\* the same `task`.
RECURSIVE HandleCommands(_, _, _, _, _)
HandleCommands(commands, task, repo, n, author) ==
    IF commands = <<>> THEN <<>>
    ELSE HandleCommand(Head(commands), task, repo, n, author)
         \o HandleCommands(Tail(commands), task, repo, n, author)

\* get_task_for_issue(repo, issue_number): get_task("issue-<n>").
get_task_for_issue(repo, n) == store[n]

\* A handler starts with the calls `todo` ahead of it.
Handle(p, todo) ==
    /\ CanStart(p)
    /\ budget' = budget - 1
    /\ UNCHANGED <<locks, lproc>>
    /\ Run(p, [IdleProc("none", {}) EXCEPT !.todo = todo])
    /\ UNCHANGED <<store, active, archived>>

\* handle_issue_event without its look for an existing task.
HandleIssueEventUnseen(p, action, labels, repo, n) ==
    Handle(p,
        IF action \notin {"opened", "labeled"} THEN <<>>
        ELSE IF labels \cap AGENT_LABELS = {} THEN <<>>
        ELSE <<CreateIns(repo, n)>> \o TriggerPlanning(n))

\* handle_issue_event, with its read of the task.
HandleIssueEvent(p, action, labels, repo, n) ==
    Handle(p,
        IF action \notin {"opened", "labeled"} THEN <<>>
        ELSE IF labels \cap AGENT_LABELS = {} THEN <<>>
        ELSE IF get_task_for_issue(repo, n) # NoTask THEN <<>>
        ELSE <<CreateIns(repo, n)>> \o TriggerPlanning(n))

\* handle_comment_event, with its read of the task.
HandleCommentEvent(p, action, body, author, repo, n) ==
    Handle(p,
        IF action # "created" THEN <<>>
        ELSE HandleCommands(FindAll(body), get_task_for_issue(repo, n),
                            repo, n, author))

\* A branch name is a sequence of tokens; "agent/" is one token, a run of
\* digits is one token.
DigitTokens == {"1", "2"}
IssueNumber(tok) == IF tok = "1" THEN 1 ELSE 2

\* branch.replace("agent/", "").split("-")[0]
RECURSIVE FirstPart(_)
FirstPart(branch) ==
    IF branch = <<>> \/ Head(branch) = "-" THEN <<>>
    ELSE IF Head(branch) = "agent/" THEN FirstPart(Tail(branch))
    ELSE <<Head(branch)>> \o FirstPart(Tail(branch))

\* handle_pr_event taking every closed pull request for a merged one.
HandlePrEventMerged(p, action, branch, merged, repo) ==
    Handle(p,
        IF branch = <<>> \/ Head(branch) # "agent/" THEN <<>>
        ELSE IF Len(FirstPart(branch)) # 1
                \/ FirstPart(branch)[1] \notin DigitTokens THEN <<>>
        ELSE LET n == IssueNumber(FirstPart(branch)[1])
             IN  IF n \notin Issues \/ get_task_for_issue(repo, n) = NoTask
                     THEN <<>>
                 ELSE IF action # "closed" THEN <<>>
                 ELSE <<TransitionIns(n, COMPLETED, "none", "none")>>)

\* handle_pr_event, with its read of the task.
HandlePrEvent(p, action, branch, merged, repo) ==
    Handle(p,
        IF branch = <<>> \/ Head(branch) # "agent/" THEN <<>>
        ELSE IF Len(FirstPart(branch)) # 1
                \/ FirstPart(branch)[1] \notin DigitTokens THEN <<>>
        ELSE LET n == IssueNumber(FirstPart(branch)[1])
             IN  IF n \notin Issues \/ get_task_for_issue(repo, n) = NoTask
                     THEN <<>>
                 ELSE IF action # "closed" THEN <<>>
                 ELSE IF merged
                     THEN <<TransitionIns(n, COMPLETED, "none", "none")>>
                 ELSE <<TransitionIns(n, ARCHIVED, "none", "none")>>)

\* handle_check_run_event: `pass`.
HandleCheckRunEvent(p) == Handle(p, <<>>)

\* A call of the code-hosting client: it returns or raises.
GitHubCall(p) ==
    /\ proc[p].pc = "github"
    /\ \/ Return(p)
       \/ Raise(p, "RemoteAPIFailure")
    /\ UNCHANGED <<store, active, archived, budget, locks, lproc>>

\* _trigger_execution: task = await get_task(task.id)
GetTask(p) ==
    /\ proc[p].pc = "get_task"
    /\ IF store[proc[p].cur.n] = NoTask THEN Raise(p, "AttributeError")
       ELSE Return(p)
    /\ UNCHANGED <<store, active, archived, budget, locks, lproc>>

\* worker.execute(task, context): an AgentResult with success or without,
\* or an exception of the LLM client.  What follows depends on the action.
AgentExecute(p) ==
    /\ proc[p].pc = "agent"
    /\ LET n == proc[p].cur.n
           then(calls) == Run(p, [proc[p] EXCEPT !.todo = calls \o @])
       IN  \/ /\ proc[p].cur.type = "plan"
              /\ \E plan \in PlanPayloads : then(PlanningSucceeded(n, plan))
           \/ /\ proc[p].cur.type = "implement"
              /\ then(CreatePr(n))
           \/ /\ proc[p].cur.type = "plan"
              /\ then(<<>>)
           \/ /\ proc[p].cur.type = "implement"
              /\ then(ExecutionFailed(n))
           \/ Raise(p, "AgentFailure")
    /\ UNCHANGED <<store, active, archived, budget, locks, lproc>>

\* Webhook payloads.
IssueActions == {"opened", "labeled", "closed"}
LabelSets == {{"agent-ok"}, {"question"}}
Line(verb) == <<"/">> \o verb
Bodies ==
    { <<Line(CommandVerbs[i])>> : i \in 1..Len(CommandVerbs) }
    \cup { << Line(<<"approve">>) \o <<" ", "LGTM">> >>,
           << Line(<<"agent", "-", "plan">>), Line(<<"agent", "-", "plan">>) >>,
           << Line(<<"agent", "-", "pm">>) \o <<" ", "Backlog", " ", "now">> >>,
           << Line(<<"agent", "-", "pm">>) \o <<" ", "bogus">> >>,
           << Line(<<"handoff">>) \o <<" ", "feature", "-", "3">> >>,
           << <<"looks", " ", "good">> >> }
Branches ==
    { <<"agent/", "1", "-", "x">>, <<"agent/", "1">>, <<"feature/", "1">>,
      <<"agent/", "x", "-", "1">>, <<"agent/", "2", "-", "x">> }

\* ------------------------------------------------------- FileCoordinator

\* The keys lock:<repo>:<path>.
LockKeys == Repos \X Paths

\* What a call of the coordinator returned: a LockResult, a count, the
\* mapping of get_locked_files, or an exception.
NoResult ==
    [ kind |-> "none", acquired |-> FALSE, conflicting_task |-> None,
      conflicting_file |-> "none", count |-> 0, locked |-> {} ]

LockResult(acquired, task, file) ==
    [NoResult EXCEPT !.kind = "lock", !.acquired = acquired,
                     !.conflicting_task = task, !.conflicting_file = file]

Count(k) == [NoResult EXCEPT !.kind = "count", !.count = k]

Locked(found) == [NoResult EXCEPT !.kind = "locked", !.locked = found]

Failed == [NoResult EXCEPT !.kind = "StoreUnavailable"]

\* A coroutine of a caller of the coordinator, not running.  op, task, repo
\* and files are the arguments of its last call and result what it returned.
IdleLock ==
    [ pc |-> "idle", op |-> "none", task |-> None, repo |-> "none",
      files |-> {}, pending |-> {}, path |-> "none", count |-> 0,
      found |-> {}, result |-> NoResult ]

LockCall(op, task, repo, files) ==
    [IdleLock EXCEPT !.op = op, !.task = task, !.repo = repo, !.files = files]

\* The call of record lp returns res (or raises, res = Failed).
LockReturned(lp, res) ==
    [ lp EXCEPT !.pc = "idle", !.pending = {}, !.path = "none", !.count = 0,
                !.found = {}, !.result = res ]

\* check_conflicts that finds no holder on any key.
DoCheckGetBlind(q, lp) ==
    \E f \in lp.pending :
        lproc' = [lproc EXCEPT ![q] =
            IF lp.pending # {f}
                THEN [lp EXCEPT !.pc = "check_get", !.pending = @ \ {f}]
            ELSE IF lp.op = "acquire"
                THEN [lp EXCEPT !.pc = "execute", !.pending = {}]
            ELSE LockReturned(lp, LockResult(TRUE, None, "none"))]

\* check_conflicts: `holder = await r.get(key)` for one more file of the
\* set, in whatever order the set is iterated; acquire_locks goes on to its
\* pipeline when no file has a holder.
DoCheckGet(q, lp) ==
    \E f \in lp.pending :
        LET holder == locks[<<lp.repo, f>>]
        IN  lproc' = [lproc EXCEPT ![q] =
                IF holder # None
                    THEN LockReturned(lp, LockResult(FALSE, holder, f))
                ELSE IF lp.pending # {f}
                    THEN [lp EXCEPT !.pc = "check_get", !.pending = @ \ {f}]
                ELSE IF lp.op = "acquire"
                    THEN [lp EXCEPT !.pc = "execute", !.pending = {}]
                ELSE LockReturned(lp, LockResult(TRUE, None, "none"))]

CheckGet(q) ==
    /\ lproc[q].pc = "check_get"
    /\ DoCheckGet(q, lproc[q])
    /\ UNCHANGED <<locks, budget, taskVars>>

\* A pipeline that reports success with one file written at most.
ExecuteOne(q) ==
    LET lp == lproc[q] IN
    /\ lp.pc = "execute"
    /\ \E f \in lp.files :
          locks' = [locks EXCEPT ![<<lp.repo, f>>] = lp.task]
    /\ lproc' = [lproc EXCEPT ![q] =
                    LockReturned(lp, LockResult(TRUE, None, "none"))]
    /\ UNCHANGED <<budget, taskVars>>

\* acquire_locks: `await pipe.execute()`, the SETEX of every file in one
\* MULTI/EXEC batch, and the return.
Execute(q) ==
    LET lp == lproc[q] IN
    /\ lp.pc = "execute"
    /\ locks' = [k \in LockKeys |->
                    IF k[1] = lp.repo /\ k[2] \in lp.files THEN lp.task
                    ELSE locks[k]]
    /\ lproc' = [lproc EXCEPT ![q] =
                    LockReturned(lp, LockResult(TRUE, None, "none"))]
    /\ UNCHANGED <<budget, taskVars>>

\* What release_locks, extend_locks and get_locked_files return.
ScanResult(lp) ==
    IF lp.op = "list" THEN Locked(lp.found) ELSE Count(lp.count)

\* The loop over scan_iter goes to its next key, or the call returns.
ScanContinued(lp) ==
    IF lp.pending = {} THEN LockReturned(lp, ScanResult(lp))
    ELSE [lp EXCEPT !.pc = "scan_get", !.path = "none"]

\* `async for key in r.scan_iter(match=lock:<repo>:*)`: the SCAN, which
\* yields the keys of the repository that are live now.
DoScan(q, lp) ==
    lproc' = [lproc EXCEPT ![q] =
        ScanContinued([lp EXCEPT !.pending =
            {f \in Paths : locks[<<lp.repo, f>>] # None}])]

\* The scan with every live key taken for one of the caller's.
ScanGetAny(q) ==
    LET lp == lproc[q] IN
    /\ lp.pc = "scan_get"
    /\ \E f \in lp.pending :
        LET holder == locks[<<lp.repo, f>>]
            rest == [lp EXCEPT !.pending = @ \ {f}]
        IN  lproc' = [lproc EXCEPT ![q] =
                IF lp.op = "list"
                    THEN ScanContinued(
                            IF holder = None THEN rest
                            ELSE [rest EXCEPT !.found = @ \cup {<<f, holder>>}])
                ELSE IF holder # None
                    THEN [rest EXCEPT !.path = f,
                            !.pc = IF lp.op = "release" THEN "delete"
                                   ELSE "expire"]
                ELSE ScanContinued(rest)]
    /\ UNCHANGED <<locks, budget, taskVars>>

\* `holder = await r.get(key)` for the next key of the scan, and the test of
\* the holder.
ScanGet(q) ==
    LET lp == lproc[q] IN
    /\ lp.pc = "scan_get"
    /\ \E f \in lp.pending :
        LET holder == locks[<<lp.repo, f>>]
            rest == [lp EXCEPT !.pending = @ \ {f}]
        IN  lproc' = [lproc EXCEPT ![q] =
                IF lp.op = "list"
                    THEN ScanContinued(
                            IF holder = None THEN rest
                            ELSE [rest EXCEPT !.found = @ \cup {<<f, holder>>}])
                ELSE IF holder # None /\ holder = lp.task
                    THEN [rest EXCEPT !.path = f,
                            !.pc = IF lp.op = "release" THEN "delete"
                                   ELSE "expire"]
                ELSE ScanContinued(rest)]
    /\ UNCHANGED <<locks, budget, taskVars>>

\* release_locks: `await r.delete(key)`; released += 1
Delete(q) ==
    LET lp == lproc[q] IN
    /\ lp.pc = "delete"
    /\ locks' = [locks EXCEPT ![<<lp.repo, lp.path>>] = None]
    /\ lproc' = [lproc EXCEPT ![q] =
                    ScanContinued([lp EXCEPT !.count = @ + 1])]
    /\ UNCHANGED <<budget, taskVars>>

\* extend_locks: `await r.expire(key, ttl)`; extended += 1.  The holder of
\* the key is as before.
ExpireKey(q) ==
    LET lp == lproc[q] IN
    /\ lp.pc = "expire"
    /\ lproc' = [lproc EXCEPT ![q] =
                    ScanContinued([lp EXCEPT !.count = @ + 1])]
    /\ UNCHANGED <<locks, budget, taskVars>>

\* The TTL of a key runs out: Redis drops the key.
KeyExpires(k) ==
    /\ locks[k] # None
    /\ locks' = [locks EXCEPT ![k] = None]
    /\ UNCHANGED <<lproc, budget, taskVars>>

\* A Redis command of the coordinator fails instead of executing.
LockStoreUnavailable(q) ==
    /\ lproc[q].pc # "idle"
    /\ lproc' = [lproc EXCEPT ![q] = LockReturned(lproc[q], Failed)]
    /\ UNCHANGED <<locks, budget, taskVars>>

\* A call starts on a free coroutine, the first of two free ones.
CanStartLock(q) ==
    /\ lproc[q].pc = "idle"
    /\ budget > 0
    /\ \A r \in LockProcs : r < q => lproc[r].pc # "idle"

\* check_conflicts(repo, files), with its first GET
CallCheckConflicts(q, repo, files) ==
    /\ CanStartLock(q)
    /\ budget' = budget - 1
    /\ DoCheckGet(q, [LockCall("check", None, repo, files)
                        EXCEPT !.pending = files])
    /\ UNCHANGED <<locks, taskVars>>

\* acquire_locks(task_id, repo, files), with the first GET of its check
CallAcquireLocks(q, task, repo, files) ==
    /\ CanStartLock(q)
    /\ budget' = budget - 1
    /\ DoCheckGet(q, [LockCall("acquire", task, repo, files)
                        EXCEPT !.pending = files])
    /\ UNCHANGED <<locks, taskVars>>

\* release_locks(task_id, repo), with its SCAN
CallReleaseLocks(q, task, repo) ==
    /\ CanStartLock(q)
    /\ budget' = budget - 1
    /\ DoScan(q, LockCall("release", task, repo, {}))
    /\ UNCHANGED <<locks, taskVars>>

\* extend_locks(task_id, repo), with its SCAN
CallExtendLocks(q, task, repo) ==
    /\ CanStartLock(q)
    /\ budget' = budget - 1
    /\ DoScan(q, LockCall("extend", task, repo, {}))
    /\ UNCHANGED <<locks, taskVars>>

\* get_locked_files(repo), with its SCAN
CallGetLockedFiles(q, repo) ==
    /\ CanStartLock(q)
    /\ budget' = budget - 1
    /\ DoScan(q, LockCall("list", None, repo, {}))
    /\ UNCHANGED <<locks, taskVars>>

\* ------------------------------------------------------- specifications

\* Redis outlives the orchestrator process, so the store a behaviour starts
\* from is the one earlier calls left behind: empty, or holding the task of
\* issue 1 of repository r1 as a sequence of completed state-machine calls
\* made one after the other leaves it.  The sequences are the prefixes of the
\* walks below through the transition table.
HappyWalk ==
    << TransitionIns(1, PLANNING, "none", "none"),
       TransitionIns(1, PLAN_REVIEW, "plan", "planA"),
       RecordIns(1, "plan_approval", "alice", <<>>),
       TransitionIns(1, APPROVED, "none", "none"),
       TransitionIns(1, EXECUTING, "none", "none"),
       TransitionIns(1, PR_OPEN, "pr", "none") >>

RetryWalk ==
    SubSeq(HappyWalk, 1, 5) \o
    << TransitionIns(1, FAILED, "error", "none"),
       TransitionIns(1, FIXER_REVIEW, "none", "none"),
       TransitionIns(1, HUMAN_ESCALATION, "none", "none"),
       TransitionIns(1, QUEUED, "none", "none"),
       TransitionIns(1, PLANNING, "none", "none"),
       TransitionIns(1, PLAN_REVIEW, "plan", "planB") >>

PMWalk ==
    << TransitionIns(1, PM_VISION, "none", "none"),
       TransitionIns(1, PM_VISION_REVIEW, "none", "none"),
       TransitionIns(1, PM_BACKLOG, "none", "none"),
       TransitionIns(1, PM_FEATURE_REVIEW, "none", "none"),
       TransitionIns(1, PM_HANDOFF_PLANNER, "none", "none") >>

Walks ==
    { HappyWalk \o <<TransitionIns(1, s, "none", "none")>> :
        s \in {PR_AGENT_REVIEW, PR_AGENT_FIX, COMPLETED, ARCHIVED} }
    \cup {RetryWalk, PMWalk}

Histories == UNION { {SubSeq(w, 1, k) : k \in 0..Len(w)} : w \in Walks }

\* The task after the calls of history h, made from time `now` on; NoTask as
\* soon as one of them would have raised.
RECURSIVE Replayed(_, _, _)
Replayed(task, h, now) ==
    IF h = <<>> \/ task = NoTask THEN task
    ELSE LET ins == Head(h)
             next == IF ins.op = "record" THEN Decided(task, ins, now + 1)
                     ELSE IF ins.to \in TRANSITIONS(task.state)
                          THEN Transitioned(task, ins, now + 1)
                     ELSE NoTask
         IN  Replayed(next, Tail(h), now + 1)

\* create_task("r1", 1, title) at time 1, then the calls of h.
TaskAfter(h) == Replayed(Task("r1", 1), h, 1)

\* The store as create_task and the calls of h leave it.
StoreAfter(h) ==
    /\ TaskAfter(h) # NoTask
    /\ store = [n \in Issues |-> IF n = 1 THEN TaskAfter(h) ELSE NoTask]
    /\ active = IF IsTerminal(TaskAfter(h).state) THEN {} ELSE {1}
    /\ archived = IF IsTerminal(TaskAfter(h).state) THEN {1} ELSE {}
    /\ clock = 1 + Len(h)

InitStore ==
    \/ /\ store = [n \in Issues |-> NoTask]
       /\ active = {}
       /\ archived = {}
       /\ clock = 0
    \/ \E h \in Histories : StoreAfter(h)

\* No lock is held and no caller of the coordinator is running.
InitLocks ==
    /\ locks = [k \in LockKeys |-> None]
    /\ lproc = [q \in LockProcs |-> IdleLock]

Init ==
    /\ InitStore
    /\ proc = [p \in Procs |-> IdleProc("none", {})]
    /\ budget = MaxOps
    /\ InitLocks

\* The Redis writes of the state machine's calls, whoever made them, and the
\* failure of a Redis command.
Write(p) ==
    \/ CreateTaskSet(p)
    \/ CreateTaskSadd(p)
    \/ TransitionSet(p)
    \/ TransitionSrem(p)
    \/ TransitionSadd(p)
    \/ RecordDecisionSet(p)
    \/ StoreUnavailable(p)

\* The steps a router handler takes between its state-machine writes.
RouterStep(p) ==
    \/ TransitionGet(p)
    \/ RecordDecisionGet(p)
    \/ GitHubCall(p)
    \/ GetTask(p)
    \/ AgentExecute(p)

Call(p) ==
    \/ \E repo \in Repos, n \in Issues : CallCreateTask(p, repo, n)
    \/ \E n \in Issues, to \in TaskState, meta \in Metas :
         \E plan \in (IF meta = "plan" THEN PlanPayloads ELSE {"none"}) :
            CallTransition(p, n, to, meta, plan)
    \/ \E n \in Issues, human \in Humans :
         CallRecordDecision(p, n, "plan_feedback", human)
    \/ CallListActiveTasks(p)

Webhook(p) ==
    \/ \E action \in IssueActions, labels \in LabelSets, repo \in Repos,
          n \in Issues : HandleIssueEvent(p, action, labels, repo, n)
    \/ \E action \in {"created", "edited"}, body \in Bodies,
          author \in Humans, repo \in Repos, n \in Issues :
            HandleCommentEvent(p, action, body, author, repo, n)
    \/ \E action \in {"closed", "opened"}, branch \in Branches,
          merged \in BOOLEAN, repo \in Repos :
            HandlePrEvent(p, action, branch, merged, repo)
    \/ HandleCheckRunEvent(p)

\* The state machine under concurrent callers: direct calls of its API from
\* coroutines that interleave at every Redis command.
Next == \E p \in Procs : Write(p) \/ ListActiveTasksGet(p) \/ Call(p)

Spec == Init /\ [][Next]_vars

\* The router fed webhooks one at a time: each handler runs to its end
\* before the next webhook is taken.
RouterProcs == {p \in Procs : \A q \in Procs : p <= q}

NextRouter == \E p \in RouterProcs : Write(p) \/ RouterStep(p) \/ Webhook(p)

SpecRouter == Init /\ [][NextRouter]_vars

\* One webhook and its redelivery: the issues/opened event of a labelled
\* issue that has no task yet, delivered, and delivered again, MaxOps times
\* at most, each time once the handling before is over (GitHub redelivers
\* what was answered 5xx).  The budget counts the deliveries left.
InitReplay ==
    /\ store = [n \in Issues |-> NoTask]
    /\ active = {}
    /\ archived = {}
    /\ clock = 0
    /\ proc = [p \in Procs |-> IdleProc("none", {})]
    /\ budget = MaxOps + 1
    /\ InitLocks

Redelivered == [action |-> "opened", labels |-> {"agent-ok"}, repo |-> "r1"]

NextReplay ==
    \E p \in RouterProcs :
        \/ CreateTaskSet(p)
        \/ CreateTaskSadd(p)
        \/ TransitionGet(p)
        \/ TransitionSet(p)
        \/ GitHubCall(p)
        \/ AgentExecute(p)
        \/ StoreUnavailable(p)
        \/ \E n \in Issues :
              HandleIssueEvent(p, Redelivered.action, Redelivered.labels,
                               Redelivered.repo, n)

SpecReplay == InitReplay /\ [][NextReplay]_vars

\* The router under concurrent webhooks: FastAPI runs each request as its
\* own coroutine, so a handler starts while another is suspended at an
\* await.  The deliveries are the ones that set agents to work or stop them
\* (a labelled issue opened or labelled, /approve, /agent-stop), on a store
\* that is empty or holds the task of issue 1 with its plan under review.
InitWebhooks ==
    /\ \/ /\ store = [n \in Issues |-> NoTask]
          /\ active = {}
          /\ archived = {}
          /\ clock = 0
       \/ StoreAfter(SubSeq(HappyWalk, 1, 2))
    /\ proc = [p \in Procs |-> IdleProc("none", {})]
    /\ budget = MaxOps
    /\ InitLocks

NextWebhooks ==
    \E p \in Procs :
        \/ CreateTaskSet(p)
        \/ CreateTaskSadd(p)
        \/ TransitionGet(p)
        \/ TransitionSet(p)
        \/ RecordDecisionGet(p)
        \/ RecordDecisionSet(p)
        \/ GitHubCall(p)
        \/ GetTask(p)
        \/ AgentExecute(p)
        \/ StoreUnavailable(p)
        \/ \E action \in {"opened", "labeled"}, n \in Issues :
              HandleIssueEvent(p, action, {"agent-ok"}, "r1", n)
        \/ \E verb \in {<<"approve">>, <<"agent", "-", "stop">>},
              n \in Issues :
              HandleCommentEvent(p, "created", <<Line(verb)>>, "alice",
                                 "r1", n)

SpecWebhooks == InitWebhooks /\ [][NextWebhooks]_vars

\* Settings.max_concurrent_agents
max_concurrent_agents == 3

\* One more labelled issue is opened than agents may run together, each
\* webhook handled by its own coroutine on a store that holds no task.  The
\* planner's call takes far longer than the steps before it: a webhook is
\* taken when the handlers started before it are waiting for their planner.
AgentProcs == 1..(max_concurrent_agents + 1)
AgentIssues == 1..(max_concurrent_agents + 1)

InitAgents ==
    /\ store = [n \in AgentIssues |-> NoTask]
    /\ active = {}
    /\ archived = {}
    /\ clock = 0
    /\ proc = [p \in AgentProcs |-> IdleProc("none", {})]
    /\ budget = max_concurrent_agents + 1
    /\ InitLocks

NextAgents ==
    \E p \in AgentProcs :
        \/ CreateTaskSet(p)
        \/ CreateTaskSadd(p)
        \/ TransitionGet(p)
        \/ TransitionSet(p)
        \/ GitHubCall(p)
        \/ AgentExecute(p)
        \/ StoreUnavailable(p)
        \/ /\ \A q \in AgentProcs : q < p => proc[q].pc = "agent"
           /\ HandleIssueEvent(p, "opened", {"agent-ok"}, "r1", p)

SpecAgents == InitAgents /\ [][NextAgents]_vars

\* ------------------------------------------------- the /webhook endpoint

\* The JSON body of a delivery, with the fields the handlers read.
NoPayload ==
    [ action |-> "none", labels |-> {}, body |-> <<>>, author |-> "none",
      repo |-> "none", n |-> 0, branch |-> <<>>, merged |-> FALSE ]

IssuePayloads ==
    { [NoPayload EXCEPT !.action = a, !.labels = l, !.repo = r, !.n = n] :
        a \in {"opened", "closed"}, l \in LabelSets, r \in Repos,
        n \in Issues }

CommentPayloads ==
    { [NoPayload EXCEPT !.action = "created", !.body = b, !.author = h,
                        !.repo = r, !.n = n] :
        b \in { <<Line(<<"approve">>)>>, <<Line(<<"agent", "-", "plan">>)>>,
                 << <<"looks", " ", "good">> >> },
        h \in {"alice"}, r \in {"r1"}, n \in Issues }

PrPayloads ==
    { [NoPayload EXCEPT !.action = "closed", !.branch = b, !.merged = m,
                        !.repo = r] :
        b \in { <<"agent/", "1", "-", "x">>, <<"feature/", "1">> },
        m \in BOOLEAN, r \in {"r1"} }

\* The X-GitHub-Event header with the body it comes with; "push" stands for
\* the kinds the endpoint does not route.
Deliveries ==
    ({"issues"} \X IssuePayloads) \cup ({"issue_comment"} \X CommentPayloads)
    \cup ({"pull_request"} \X PrPayloads)
    \cup ({"check_run", "push"} \X {NoPayload})

\* settings.github_webhook_secret
github_webhook_secret == "secret"

\* hmac.new(secret, payload, sha256).hexdigest(): the digest is determined
\* by the key and the message, and different pairs give different digests.
Hmac(secret, payload) == <<secret, payload>>

\* The X-Hub-Signature-256 headers a delivery of `payload` may carry, as the
\* scheme prefix and the hex digest that follows it: GitHub's, the SHA-1
\* header's value, one made with another secret, one made for another body.
Signatures(payload) ==
    { [scheme |-> "sha256=", hex |-> Hmac(github_webhook_secret, payload)],
      [scheme |-> "sha1=", hex |-> Hmac(github_webhook_secret, payload)],
      [scheme |-> "sha256=", hex |-> Hmac("guess", payload)],
      [scheme |-> "sha256=", hex |-> Hmac(github_webhook_secret, <<>>)] }

\* verify_webhook_signature with only its test of the prefix.
verify_webhook_signature_prefix(payload, signature, secret) ==
    signature.scheme = "sha256="

\* verify_webhook_signature(payload, signature, secret)
verify_webhook_signature(payload, signature, secret) ==
    IF signature.scheme # "sha256=" THEN FALSE
    ELSE [scheme |-> "sha256=", hex |-> Hmac(secret, payload)] = signature

\* raise HTTPException(status_code=401): the request is over, no handler of
\* the router was called.
RejectWebhook(p) ==
    /\ CanStart(p)
    /\ budget' = budget - 1
    /\ proc' = [proc EXCEPT ![p] = IdleProc("HTTPException", {})]
    /\ UNCHANGED <<store, active, archived, clock, locks, lproc>>

\* github_webhook: POST /webhook with event header, body and signature.
GithubWebhook(p, event, payload, signature) ==
    LET ok == verify_webhook_signature(payload, signature,
                                       github_webhook_secret)
    IN  \/ ~ok /\ RejectWebhook(p)
        \/ ok /\ event = "issues"
              /\ HandleIssueEvent(p, payload.action, payload.labels,
                                  payload.repo, payload.n)
        \/ ok /\ event = "issue_comment"
              /\ HandleCommentEvent(p, payload.action, payload.body,
                                    payload.author, payload.repo, payload.n)
        \/ ok /\ event = "pull_request"
              /\ HandlePrEvent(p, payload.action, payload.branch,
                               payload.merged, payload.repo)
        \/ ok /\ event = "check_run" /\ HandleCheckRunEvent(p)
        \/ ok /\ event \notin {"issues", "issue_comment", "pull_request",
                               "check_run"}
              /\ Handle(p, <<>>)

\* The service behind its endpoint: deliveries arrive one at a time, signed
\* or not, and each is answered before the next is taken.
NextEndpoint ==
    \E p \in RouterProcs :
        \/ Write(p)
        \/ RouterStep(p)
        \/ \E d \in Deliveries : \E signature \in Signatures(d[2]) :
              GithubWebhook(p, d[1], d[2], signature)

SpecEndpoint == Init /\ [][NextEndpoint]_vars

\* The file-lock registry used by concurrent callers, next to transitions
\* of the tasks that hold the locks.  The store holds the task of issue 1
\* with its pull request open, or escalated to a human; issue 2 has no task.
InitRegistry ==
    /\ \/ StoreAfter(HappyWalk)
       \/ StoreAfter(SubSeq(RetryWalk, 1, 8))
    /\ proc = [p \in Procs |-> IdleProc("none", {})]
    /\ budget = MaxLockOps
    /\ InitLocks

LockStep(q) ==
    \/ CheckGet(q)
    \/ Execute(q)
    \/ ScanGet(q)
    \/ Delete(q)
    \/ ExpireKey(q)
    \/ LockStoreUnavailable(q)

LockCallStep(q) ==
    \/ \E repo \in Repos, files \in FileSets :
          CallCheckConflicts(q, repo, files)
    \/ \E task \in LockTasks, repo \in Repos, files \in FileSets :
          CallAcquireLocks(q, task, repo, files)
    \/ \E task \in LockTasks, repo \in Repos : CallReleaseLocks(q, task, repo)
    \/ \E task \in LockTasks, repo \in Repos : CallExtendLocks(q, task, repo)
    \/ \E repo \in Repos : CallGetLockedFiles(q, repo)

\* A transition of a task, the only thing the holder of a lock does in the
\* state machine.
TaskStep(p) ==
    \/ \E n \in Issues, to \in TaskState : CallTransition(p, n, to, "none", "none")
    \/ TransitionSet(p)
    \/ TransitionSrem(p)
    \/ TransitionSadd(p)

NextRegistry ==
    \/ \E q \in LockProcs : LockStep(q) \/ LockCallStep(q)
    \/ \E k \in LockKeys : KeyExpires(k)
    \/ \E p \in RouterProcs : TaskStep(p)

SpecRegistry == InitRegistry /\ [][NextRegistry]_vars

\* ------------------------------------------------------------- claims

\* The table of valid successors as the specification states it (4.3).
SpecSuccessors(s) ==
    CASE s = "queued" -> {"planning", "pm_vision"}
      [] s = "planning" -> {"plan_review"}
      [] s = "plan_review" -> {"approved", "planning"}
      [] s = "approved" -> {"executing"}
      [] s = "executing" -> {"pr_open", "failed"}
      [] s = "pr_open" ->
            {"pr_agent_review", "pr_agent_fix", "completed", "archived"}
      [] s = "pr_agent_review" -> {"pr_open"}
      [] s = "pr_agent_fix" -> {"pr_open"}
      [] s = "failed" -> {"fixer_review"}
      [] s = "fixer_review" -> {"executing", "human_escalation"}
      [] s = "human_escalation" -> {"queued", "archived"}
      [] s = "pm_vision" -> {"pm_vision_review"}
      [] s = "pm_vision_review" -> {"pm_vision", "pm_backlog"}
      [] s = "pm_backlog" -> {"pm_feature_review", "pm_vision"}
      [] s = "pm_feature_review" -> {"pm_backlog", "pm_handoff_planner"}
      [] s = "pm_handoff_planner" -> {"planning"}
      [] OTHER -> {}

\* C1.  Transition closure.  A call transition(n, to) that reads an existing
\* task in state s passes its validation, and goes on to write the task with
\* state `to`, iff `to` is a successor of s in the table of the specification;
\* otherwise it ends with the invalid-transition error and the task record
\* and both id sets are as before.  The write of a transition stores the
\* requested state.
C1_TransitionClosure ==
    [][ /\ \A p \in Procs :
            ( /\ proc[p].pc = "idle"
              /\ budget' < budget
              /\ \A q \in Procs \ {p} : proc'[q] = proc[q] ) =>
            \A n \in Issues, to \in TaskState, meta \in Metas :
              \A plan \in (IF meta = "plan" THEN PlanPayloads ELSE {"none"}) :
                ( /\ store[n] # NoTask
                  /\ CallTransition(p, n, to, meta, plan) ) =>
                    IF to \in SpecSuccessors(store[n].state)
                    THEN /\ proc'[p].pc = "transition_set"
                         /\ proc'[p].task.state = to
                    ELSE /\ proc'[p].pc = "idle"
                         /\ proc'[p].err = "InvalidTransition"
                         /\ store' = store
                         /\ active' = active
                         /\ archived' = archived
        /\ \A p \in Procs :
            ( proc[p].pc = "transition_set" /\ TransitionSet(p) ) =>
                store'[proc[p].cur.n].state = proc[p].cur.to ]_vars

\* C1 witness: one call has been refused as an invalid transition while
\* another, accepted, has written its new state.
C1_Witness ==
    \E p, q \in Procs, n \in Issues :
        /\ proc[p].pc = "idle" /\ proc[p].err = "InvalidTransition"
        /\ proc[q].pc = "transition_srem"
        /\ proc[q].cur.n = n
        /\ store[n].state = proc[q].cur.to

\* C2.  Terminal states are final: no step changes the state of a task whose
\* stored state is COMPLETED or ARCHIVED.
C2_TerminalFinal ==
    [][ \A n \in Issues :
            IsTerminal(store[n].state) => store'[n].state = store[n].state ]_vars

\* No operation is in flight and none has been cut short by the store.
Quiescent ==
    \A p \in Procs : proc[p].pc = "idle" /\ proc[p].err # "StoreUnavailable"

\* C3.  Terminal partitioning, between operations: a task in a terminal
\* state is in tasks:archived and not in tasks:active, every other existing
\* task is in tasks:active and not in tasks:archived.
C3_TerminalPartitioning ==
    Quiescent =>
        \A n \in Issues :
            store[n] # NoTask =>
                IF IsTerminal(store[n].state)
                THEN n \in archived /\ n \notin active
                ELSE n \in active /\ n \notin archived

\* C4.  The task write and the set move of a terminal transition are one
\* step: in no state is a task COMPLETED or ARCHIVED while its id is in
\* tasks:active.
C4_TerminalMoveAtomic ==
    \A n \in Issues : IsTerminal(store[n].state) => n \notin active

\* C5.  create_task on an issue that has a task fails and leaves the stored
\* record as it is.
C5_CreateRefusesDuplicate ==
    [][ \A p \in Procs :
            CreateTaskSet(p) /\ store[proc[p].cur.n] # NoTask =>
                store' = store ]_vars

\* C6.  Tasks are scoped by repository: a qualifying issues event for issue n
\* of repository r2, arriving while the store holds the task of issue n of r1
\* and none of r2, goes on to create a task.
C6_RepositoryScoped ==
    [][ \A p \in Procs, action \in {"opened", "labeled"}, labels \in LabelSets,
           n \in Issues :
            ( /\ HandleIssueEvent(p, action, labels, "r2", n)
              /\ labels \cap AGENT_LABELS # {}
              /\ store[n].repo = "r1" )
            => proc'[p].pc = "create_set" ]_vars

\* C7.  Per-task mutual exclusion: no write of a call discards an update made
\* since the call read the task.  The write of record_decision adds one
\* decision to those stored and leaves the stored state and plans; the write
\* of transition leaves the stored decisions and keeps the stored plans.
C7_NoLostUpdate ==
    [][ \A p \in Procs :
          LET n == proc[p].cur.n IN
            /\ RecordDecisionSet(p) =>
                  /\ Len(store'[n].decisions) = Len(store[n].decisions) + 1
                  /\ IsPrefixOf(store[n].decisions, store'[n].decisions)
                  /\ store'[n].state = store[n].state
                  /\ store'[n].plan_versions = store[n].plan_versions
            /\ TransitionSet(p) =>
                  /\ store'[n].decisions = store[n].decisions
                  /\ IsPrefixOf(store[n].plan_versions,
                                store'[n].plan_versions) ]_vars

\* C8.  Append-only history: no step shortens or alters the plan_versions or
\* the decisions of a stored task.
C8_AppendOnly ==
    [][ \A n \in Issues :
            store[n] # NoTask =>
                /\ IsPrefixOf(store[n].plan_versions, store'[n].plan_versions)
                /\ IsPrefixOf(store[n].decisions, store'[n].decisions) ]_vars

\* C9.  current_plan_version == len(plan_versions) for every stored task.
C9_PlanCursor ==
    \A n \in Issues :
        store[n].current_plan_version = Len(store[n].plan_versions)

\* C9 witness: a stored task with more plans than any task has at the start,
\* so a transition of this behaviour has appended one.
C9_Witness ==
    \E n \in Issues :
        /\ Len(store[n].plan_versions) > Len(TaskAfter(RetryWalk).plan_versions)
        /\ store[n].current_plan_version > 0

\* C10.  Timeline fields are set once: the write of a transition changes no
\* timeline field that holds a value.
C10_TimelineSetOnce ==
    [][ \A p \in Procs :
          LET n == proc[p].cur.n IN
            TransitionSet(p) /\ store[n] # NoTask =>
                /\ store[n].first_plan_at # None =>
                      store'[n].first_plan_at = store[n].first_plan_at
                /\ store[n].approved_at # None =>
                      store'[n].approved_at = store[n].approved_at
                /\ store[n].pr_opened_at # None =>
                      store'[n].pr_opened_at = store[n].pr_opened_at
                /\ store[n].completed_at # None =>
                      store'[n].completed_at = store[n].completed_at ]_vars


\* The timeline fields of a task that hold a value, in the order the
\* specification gives them.
TimelineSet(task) ==
    SelectSeq(<<task.created_at, task.first_plan_at, task.approved_at,
                task.pr_opened_at, task.completed_at>>,
              LAMBDA t : t # None)

\* C11.  Timeline monotonicity: in every state the timeline fields of every
\* stored task that are set satisfy created_at <= first_plan_at <=
\* approved_at <= pr_opened_at <= completed_at.  (The clock of the model
\* never goes back.)
C11_TimelineMonotone ==
    \A n \in Issues :
        store[n] # NoTask =>
            LET set == TimelineSet(store[n])
            IN  \A i \in 1..(Len(set) - 1) : set[i] <= set[i + 1]

\* C11 witness: a task with all five fields set, its PR reopened by an agent
\* round and then closed by transitions of this behaviour.
C11_Witness ==
    \E n \in Issues :
        /\ Len(TimelineSet(store[n])) = 5
        /\ store[n].completed_at > store[n].pr_opened_at + 2


\* C12.  Frame of record_decision.  The record a call builds from the task
\* it read has exactly one more Decision, the one of its arguments, at the
\* end of decisions and a later updated_at, and is equal to the task read in
\* every other field (state, plan_versions, the other timeline fields, ...);
\* reading writes nothing.  The write of the call stores that record and
\* leaves tasks:active and tasks:archived as they are.
C12_RecordDecisionFrame ==
    [][ /\ \A p \in Procs, n \in Issues, human \in Humans :
            ( /\ proc[p].pc = "idle"
              /\ store[n] # NoTask
              /\ CallRecordDecision(p, n, "plan_feedback", human) ) =>
                LET built == proc'[p].task IN
                /\ proc'[p].pc = "decision_set"
                /\ built.decisions =
                      Append(store[n].decisions,
                             Decision("plan_feedback", human, <<>>))
                /\ built.updated_at > store[n].updated_at
                /\ [built EXCEPT !.decisions = store[n].decisions,
                                 !.updated_at = store[n].updated_at]
                      = store[n]
                /\ store' = store
                /\ active' = active
                /\ archived' = archived
        /\ \A p \in Procs :
            ( proc[p].pc = "decision_set" /\ RecordDecisionSet(p) ) =>
                /\ store' = [store EXCEPT ![proc[p].cur.n] = proc[p].task]
                /\ proc'[p].err = "none"
                /\ active' = active
                /\ archived' = archived ]_vars

\* C12 witness: a call has written a second decision after the one the task
\* started with.
C12_Witness ==
    \E n \in Issues :
        /\ Len(store[n].decisions) >= 2
        /\ store[n].updated_at > store[n].created_at


\* C13.  Re-applying a transition is a no-op: transition(n, s) on a task
\* whose stored state is s already does not fail, and leaves the record and
\* both id sets as they are.
C13_ReapplyIsNoOp ==
    [][ \A p \in Procs, n \in Issues, meta \in Metas :
          \A plan \in (IF meta = "plan" THEN PlanPayloads ELSE {"none"}) :
            ( /\ proc[p].pc = "idle"
              /\ store[n] # NoTask
              /\ CallTransition(p, n, store[n].state, meta, plan) ) =>
                /\ proc'[p].err = "none"
                /\ store' = store
                /\ active' = active
                /\ archived' = archived ]_vars

\* C14.  No partial mutation on failure: when a Redis command of transition
\* fails, the record the call built is not in the store (the call has not
\* written yet).
C14_NoPartialMutation ==
    [][ \A p \in Procs :
            ( /\ proc[p].cur.op = "transition"
              /\ proc[p].pc \in StoreCommandPcs
              /\ StoreUnavailable(p) ) =>
                store[proc[p].cur.n] # proc[p].task ]_vars


\* C15.  File-lock contention serializes: acquire reports acquired:true
\* only when, at that moment, none of the paths it asked for is locked by
\* another task.
C15_ContentionSerializes ==
    [][ \A q \in LockProcs :
            ( lproc[q].pc = "execute" /\ Execute(q) ) =>
                \A f \in lproc[q].files :
                    locks[<<lproc[q].repo, f>>] \in {None, lproc[q].task} ]_vars

\* C16.  Lock conflict.  acquire(t1, r, files) that succeeds leaves every
\* key lock:<r>:<p>, p in files, with holder t1.  While the key of p holds
\* t1, check_conflicts(r, {p}) and acquire(t2, r, {p}) of another task t2
\* return acquired:false with conflicting_task t1 and conflicting_file p and
\* write nothing.  The delete of release(t1, r) removes the key, and on a key
\* that is absent acquire(t2, r, {p}) finds no conflict and goes on to write.
\* (A live lock overwritten by an acquire that checked before it was
\* written is the subject of C15.)
C16_LockConflict ==
    [][ /\ \A q \in LockProcs :
            ( lproc[q].pc = "execute" /\ Execute(q) ) =>
                /\ lproc'[q].result = LockResult(TRUE, None, "none")
                /\ \A f \in lproc[q].files :
                      locks'[<<lproc[q].repo, f>>] = lproc[q].task
        /\ \A q \in LockProcs, r \in Repos, p \in Paths :
            ( lproc[q].pc = "idle" /\ locks[<<r, p>>] # None ) =>
                /\ CallCheckConflicts(q, r, {p}) =>
                      /\ lproc'[q].pc = "idle"
                      /\ lproc'[q].result =
                            LockResult(FALSE, locks[<<r, p>>], p)
                /\ \A t2 \in LockTasks \ {locks[<<r, p>>]} :
                      CallAcquireLocks(q, t2, r, {p}) =>
                          /\ lproc'[q].pc = "idle"
                          /\ lproc'[q].result =
                                LockResult(FALSE, locks[<<r, p>>], p)
                          /\ locks' = locks
        /\ \A q \in LockProcs :
            ( lproc[q].pc = "delete" /\ Delete(q) ) =>
                locks'[<<lproc[q].repo, lproc[q].path>>] = None
        /\ \A q \in LockProcs, r \in Repos, p \in Paths, t2 \in LockTasks :
            ( /\ lproc[q].pc = "idle"
              /\ locks[<<r, p>>] = None
              /\ CallAcquireLocks(q, t2, r, {p}) ) =>
                lproc'[q].pc = "execute" ]_vars

\* C16 witness: the acquire of one task has been refused with the other
\* task as the holder, and the call before it on that coroutine cannot have
\* been its own (the lock was written in this behaviour).
C16_Witness ==
    \E q \in LockProcs :
        /\ lproc[q].pc = "idle"
        /\ lproc[q].op = "acquire"
        /\ lproc[q].result.kind = "lock"
        /\ ~lproc[q].result.acquired
        /\ lproc[q].result.conflicting_task \in LockTasks \ {lproc[q].task}
        /\ locks[<<lproc[q].repo, lproc[q].result.conflicting_file>>]
              = lproc[q].result.conflicting_task


\* C17.  Lock ownership.  release(t, r) scans every live key of r; it
\* deletes a key only after reading t as its holder and passes over a key
\* only after reading another holder (or none); each delete removes that one
\* key of r and leaves all other keys, those of other tasks and those of
\* other repositories, as they are; the other steps of the call write
\* nothing; the count returned is the number of deletes.
C17_LockOwnership ==
    [][ /\ \A q \in LockProcs, t \in LockTasks, r \in Repos :
            ( lproc[q].pc = "idle" /\ CallReleaseLocks(q, t, r) ) =>
                /\ locks' = locks
                /\ IF lproc'[q].pc = "idle"
                   THEN /\ \A f \in Paths : locks[<<r, f>>] = None
                        /\ lproc'[q].result = Count(0)
                   ELSE /\ lproc'[q].pc = "scan_get"
                        /\ lproc'[q].count = 0
                        /\ {f \in Paths : locks[<<r, f>>] = t}
                              \subseteq lproc'[q].pending
        /\ \A q \in LockProcs :
            LET lp == lproc[q] IN
            ( lp.pc = "scan_get" /\ lp.op = "release" /\ ScanGet(q) ) =>
                /\ locks' = locks
                /\ \A f \in lp.pending \ lproc'[q].pending :
                      lproc'[q].pc = "delete" <=> locks[<<lp.repo, f>>] = lp.task
                /\ lproc'[q].pc = "delete" =>
                      /\ lproc'[q].path \in lp.pending \ lproc'[q].pending
                      /\ lproc'[q].count = lp.count
                /\ lproc'[q].pc = "scan_get" => lproc'[q].count = lp.count
                /\ lproc'[q].pc = "idle" =>
                      lp.pending \ lproc'[q].pending = lp.pending
                      /\ lproc'[q].result = Count(lp.count)
        /\ \A q \in LockProcs :
            LET lp == lproc[q] IN
            ( lp.pc = "delete" /\ Delete(q) ) =>
                /\ locks' = [locks EXCEPT ![<<lp.repo, lp.path>>] = None]
                /\ lproc'[q].pc = "scan_get" =>
                      lproc'[q].count = lp.count + 1
                /\ lproc'[q].pc = "idle" =>
                      lproc'[q].result = Count(lp.count + 1) ]_vars

\* C17 witness: a release has returned 2, having deleted both locks of its
\* task, and a lock of the other task is live as before.
C17_Witness ==
    \E q \in LockProcs :
        /\ lproc[q].pc = "idle"
        /\ lproc[q].op = "release"
        /\ lproc[q].result = Count(2)
        /\ \A f \in Paths : locks[<<lproc[q].repo, f>>] = None
        /\ \E k \in LockKeys : locks[k] \in LockTasks \ {lproc[q].task}

\* A call of acquire_locks by q returns in this step.
AcquireReturns(q) ==
    /\ lproc'[q].pc = "idle"
    /\ lproc'[q].op = "acquire"
    /\ lproc'[q] # lproc[q]
    /\ lproc[q].pc # "idle" \/ budget' < budget

\* C18.  acquire never partially reports success.  When acquire(t, r,
\* paths) returns acquired:true, every path of paths is locked with holder
\* t; when it returns acquired:false or fails on a store error, it has
\* written no lock: the only step of acquire that writes is the one that
\* returns acquired:true.
C18_AcquireAllOrNothing ==
    [][ \A q \in LockProcs :
          /\ AcquireReturns(q) =>
                IF lproc'[q].result.kind = "lock" /\ lproc'[q].result.acquired
                THEN \A f \in lproc'[q].files :
                        locks'[<<lproc'[q].repo, f>>] = lproc'[q].task
                ELSE locks' = locks
          /\ ( /\ lproc'[q] # lproc[q]
               /\ lproc'[q].op = "acquire"
               /\ locks' # locks ) =>
                /\ AcquireReturns(q)
                /\ lproc'[q].result = LockResult(TRUE, None, "none") ]_vars

\* C18 witness: one acquire has returned acquired:true with both its paths
\* locked, another acquired:false with nothing of its task locked.
C18_Witness ==
    \E q, r \in LockProcs :
        /\ lproc[q].pc = "idle" /\ lproc[r].pc = "idle"
        /\ lproc[q].op = "acquire" /\ lproc[r].op = "acquire"
        /\ lproc[q].result = LockResult(TRUE, None, "none")
        /\ lproc[q].files = Paths
        /\ \A f \in Paths : locks[<<lproc[q].repo, f>>] = lproc[q].task
        /\ lproc[r].result.kind = "lock" /\ ~lproc[r].result.acquired
        /\ \A k \in LockKeys : locks[k] # lproc[r].task


\* C19.  Lock holders are live tasks.  In every reachable state the holder
\* of every unexpired file lock is a task that is not in COMPLETED or
\* ARCHIVED: a task that reaches a terminal state holds no live lock.  (The
\* formula speaks of holders that exist in the store; that a holder exists
\* at all is the other half of the claim, and fails with it.)
C19_HolderNotTerminal ==
    \A k \in LockKeys :
        ( /\ locks[k] \in DOMAIN store
          /\ store[locks[k]] # NoTask ) =>
            store[locks[k]].state \notin {COMPLETED, ARCHIVED}

\* C20.  An issues event creates a task only when its action is opened or
\* labeled, its labels intersect AGENT_LABELS and the lookup of the issue's
\* task (task:issue-<n>) finds none; then create_task writes a task in
\* QUEUED where there was none and the planning trigger follows it.  In
\* every other case the handler ends at once and nothing in the store is
\* created or modified.  (The create_task of an issues event is the one with
\* the planning trigger behind it; /agent-plan and /agent-pm comments create
\* tasks of their own.)
C20_IssueEventCreates ==
    [][ /\ \A p \in RouterProcs, action \in IssueActions, labels \in LabelSets,
             repo \in Repos, n \in Issues :
            ( /\ proc[p].pc = "idle"
              /\ budget' < budget
              /\ HandleIssueEvent(p, action, labels, repo, n) ) =>
                /\ UNCHANGED <<store, active, archived>>
                /\ IF /\ action \in {"opened", "labeled"}
                      /\ labels \cap AGENT_LABELS # {}
                      /\ store[n] = NoTask
                   THEN /\ proc'[p].pc = "create_set"
                        /\ proc'[p].cur = CreateIns(repo, n)
                        /\ proc'[p].todo = TriggerPlanning(n)
                   ELSE /\ proc'[p].pc = "idle"
                        /\ proc'[p].todo = <<>>
        /\ \A p \in RouterProcs :
            ( /\ proc[p].pc = "create_set"
              /\ proc[p].todo = TriggerPlanning(proc[p].cur.n)
              /\ CreateTaskSet(p) ) =>
                /\ store[proc[p].cur.n] = NoTask
                /\ store'[proc[p].cur.n].state = QUEUED
                /\ store'[proc[p].cur.n].repo = proc[p].cur.repo
                /\ \A m \in Issues \ {proc[p].cur.n} : store'[m] = store[m]
                /\ proc'[p].pc = "create_sadd"
                /\ proc'[p].todo = proc[p].todo
        /\ \A p \in RouterProcs :
            ( /\ proc[p].pc = "create_sadd"
              /\ proc[p].todo = TriggerPlanning(proc[p].cur.n)
              /\ CreateTaskSadd(p) ) =>
                /\ proc[p].cur.n \in active'
                /\ proc'[p].cur = TransitionIns(proc[p].cur.n, PLANNING,
                                                "none", "none") ]_vars

\* C20 witness: the handler of an issues event has created the task and
\* moved it to PLANNING, and is about to run the planning agent.
C20_Witness ==
    \E p \in RouterProcs, n \in Issues :
        /\ proc[p].cur = GitHubIns(n, "set_agent_label")
        /\ proc[p].todo = <<AgentIns(n, "plan")>>
        /\ store[n] # NoTask
        /\ store[n].state = PLANNING
        /\ n \in active


\* The state test at the head of each state-gated command handler
\* (`if task.state != ...: return`).
VerbPrecondition(c) ==
    CASE c = <<"approve">> -> {PLAN_REVIEW}
      [] c = <<"agent", "-", "review">> -> {PR_OPEN}
      [] c = <<"agent", "-", "fix">> -> {PR_OPEN}
      [] c = <<"approve", "-", "vision">> -> {PM_VISION_REVIEW}
      [] c = <<"refine", "-", "feature">> -> {PM_FEATURE_REVIEW}
      [] c = <<"approve", "-", "feature">> -> {PM_FEATURE_REVIEW}
      [] c = <<"add", "-", "feature">> -> {PM_BACKLOG, PM_FEATURE_REVIEW}
      [] c = <<"prioritize">> -> {PM_BACKLOG, PM_FEATURE_REVIEW}
      [] c = <<"handoff">> -> {PM_FEATURE_REVIEW}
      [] OTHER -> TaskState

GatedVerbs == {i \in 1..Len(CommandVerbs) : VerbPrecondition(CommandVerbs[i]) # TaskState}

\* The coroutine record of a handler that has just begun with the calls
\* `todo` ahead of it.
Begun(todo) == Returned([IdleProc("none", {}) EXCEPT !.todo = todo], clock + 1)

\* C21.  Wrong-state commands are no-ops.  For every state-gated verb, a
\* comment whose one line is /<verb>, arriving when no task exists or the
\* task is not in the verb's precondition state, records no decision and
\* performs no transition: its handler ends at once, without an error, and
\* the store is as it was.
C21_WrongStateNoOp ==
    [][ \A p \in RouterProcs, i \in GatedVerbs, author \in Humans,
          repo \in Repos, n \in Issues :
            ( /\ proc[p].pc = "idle"
              /\ budget' < budget
              /\ \/ store[n] = NoTask
                 \/ store[n].state \notin VerbPrecondition(CommandVerbs[i])
              /\ HandleCommentEvent(p, "created", <<Line(CommandVerbs[i])>>,
                                    author, repo, n) ) =>
                /\ proc'[p] = IdleProc("none", {})
                /\ UNCHANGED <<store, active, archived>> ]_vars

\* C22.  The router never raises for state-machine errors: no handler of a
\* webhook ends with an invalid transition, a missing task or a duplicate
\* task escaping from it.
C22_RouterNeverRaises ==
    \A p \in RouterProcs :
        proc[p].err \notin {"InvalidTransition", "TaskNotFound", "DuplicateTask"}

\* C23.  Commands of one comment see the task as the commands before them
\* left it.  A command that creates the task when there is none
\* (/agent-plan, /agent-pm) therefore calls create_task only while the
\* store holds no task for the issue: the task an earlier command of the
\* comment created is seen by the later ones.
C23_CommandsCompose ==
    [][ \A p \in RouterProcs :
            ( proc[p].pc = "create_set" /\ CreateTaskSet(p) ) =>
                store[proc[p].cur.n] = NoTask ]_vars

\* C24.  /approve applied twice.  A second /approve comment, arriving after
\* the first has been applied (the task holds its plan_approval and has
\* left PLAN_REVIEW), records a second plan_approval decision and makes no
\* transition.
C24_ApproveTwice ==
    [][ \A p \in RouterProcs, author \in Humans, repo \in Repos, n \in Issues :
            ( /\ proc[p].pc = "idle"
              /\ budget' < budget
              /\ store[n] # NoTask
              /\ store[n].state # PLAN_REVIEW
              /\ \E k \in 1..Len(store[n].decisions) :
                    store[n].decisions[k].type = "plan_approval"
              /\ HandleCommentEvent(p, "created", <<Line(<<"approve">>)>>,
                                    author, repo, n) ) =>
                proc'[p] = Begun(<<RecordIns(n, "plan_approval", author, <<>>)>>) ]_vars


\* C25.  /approve on a task in PLAN_REVIEW.  The handler makes, in this
\* order, one record_decision(plan_approval) with the comment's author as
\* human and the argument text as comment, the transition to APPROVED, and
\* the execution trigger, whose first call is the transition to EXECUTING.
\* The decision is appended while the task is still in PLAN_REVIEW, the
\* task then moves PLAN_REVIEW -> APPROVED with that decision in place, and
\* then APPROVED -> EXECUTING.
C25_ApproveSequence ==
    [][ /\ \A p \in RouterProcs, args \in {<<>>, <<" ", "LGTM">>},
             author \in Humans, repo \in Repos, n \in Issues :
            ( /\ proc[p].pc = "idle"
              /\ budget' < budget
              /\ store[n] # NoTask
              /\ store[n].state = PLAN_REVIEW
              /\ HandleCommentEvent(p, "created",
                                    <<Line(<<"approve">>) \o args>>,
                                    author, repo, n) ) =>
                proc'[p] = Begun(
                    << RecordIns(n, "plan_approval", author, Strip(args)),
                       TransitionIns(n, APPROVED, "none", "none"),
                       TransitionIns(n, EXECUTING, "none", "none"),
                       GitHubIns(n, "set_agent_label"),
                       GetIns(n),
                       AgentIns(n, "implement") >>)
        /\ \A p \in RouterProcs :
            LET cur == proc[p].cur IN
            ( /\ proc[p].pc = "decision_set"
              /\ cur.type = "plan_approval"
              /\ RecordDecisionSet(p) ) =>
                /\ store[cur.n].state = PLAN_REVIEW
                /\ store'[cur.n].state = PLAN_REVIEW
                /\ store'[cur.n].decisions =
                      Append(store[cur.n].decisions,
                             Decision("plan_approval", cur.human, cur.comment))
                /\ proc'[p].cur = TransitionIns(cur.n, APPROVED, "none", "none")
        /\ \A p \in RouterProcs :
            LET cur == proc[p].cur IN
            ( /\ proc[p].pc = "transition_set"
              /\ cur.to = APPROVED
              /\ TransitionSet(p) ) =>
                /\ store[cur.n].state = PLAN_REVIEW
                /\ store'[cur.n].state = APPROVED
                /\ store'[cur.n].decisions = store[cur.n].decisions
                /\ store[cur.n].decisions # <<>>
                /\ store[cur.n].decisions[Len(store[cur.n].decisions)].type
                      = "plan_approval"
                /\ proc'[p].cur = TransitionIns(cur.n, EXECUTING, "none", "none")
        /\ \A p \in RouterProcs :
            LET cur == proc[p].cur IN
            ( /\ proc[p].pc = "transition_set"
              /\ cur.to = EXECUTING
              /\ TransitionSet(p) ) =>
                /\ store[cur.n].state = APPROVED
                /\ store'[cur.n].state = EXECUTING ]_vars

\* C25 witness: an /approve LGTM of alice has been recorded, the task has
\* gone through APPROVED to EXECUTING and the handler is on its way to the
\* worker.
C25_Witness ==
    \E p \in RouterProcs, n \in Issues :
        /\ proc[p].cur = GitHubIns(n, "set_agent_label")
        /\ proc[p].todo = <<GetIns(n), AgentIns(n, "implement")>>
        /\ store[n] # NoTask
        /\ store[n].state = EXECUTING
        /\ store[n].approved_at # None
        /\ store[n].decisions # <<>>
        /\ store[n].decisions[Len(store[n].decisions)]
              = Decision("plan_approval", "alice", <<"LGTM">>)


\* C26.  Outcome of the planning trigger.  When the worker has run with
\* action=plan, either it succeeded, and the handler goes on to post the
\* plan and to move the task to PLAN_REVIEW with the plan appended to
\* plan_versions (length + 1), or it failed, and the handler's next call is
\* the transition to FAILED with the error.
C26_PlanningOutcome ==
    [][ /\ \A p \in RouterProcs :
            LET n == proc[p].cur.n IN
            ( /\ proc[p].pc = "agent"
              /\ proc[p].cur.type = "plan"
              /\ AgentExecute(p) ) =>
                \/ \E plan \in PlanPayloads :
                      /\ proc'[p].cur = GitHubIns(n, "create_issue_comment")
                      /\ proc'[p].todo =
                            << TransitionIns(n, PLAN_REVIEW, "plan", plan),
                               GitHubIns(n, "set_agent_label") >>
                \/ proc'[p].cur = TransitionIns(n, FAILED, "error", "none")
        /\ \A p \in RouterProcs :
            LET cur == proc[p].cur IN
            ( /\ proc[p].pc = "transition_set"
              /\ cur.to = PLAN_REVIEW
              /\ TransitionSet(p) ) =>
                /\ store'[cur.n].state = PLAN_REVIEW
                /\ store'[cur.n].plan_versions =
                      Append(store[cur.n].plan_versions, cur.plan) ]_vars


C28_PrEvent ==
    [][ /\ \A p \in RouterProcs, action \in {"closed", "opened"},
             branch \in Branches, merged \in BOOLEAN, repo \in Repos :
            ( /\ proc[p].pc = "idle"
              /\ budget' < budget
              /\ store[1] # NoTask
              /\ store[1].state = PR_OPEN
              /\ HandlePrEvent(p, action, branch, merged, repo) ) =>
                /\ UNCHANGED <<store, active, archived>>
                /\ proc'[p] = Begun(
                      IF /\ branch \in {<<"agent/", "1", "-", "x">>,
                                        <<"agent/", "1">>}
                         /\ action = "closed"
                      THEN <<TransitionIns(1, IF merged THEN COMPLETED
                                              ELSE ARCHIVED, "none", "none")>>
                      ELSE <<>>)
        /\ \A p \in RouterProcs :
            LET cur == proc[p].cur IN
            ( /\ proc[p].pc = "transition_set"
              /\ cur.to \in {COMPLETED, ARCHIVED}
              /\ store[cur.n].state = PR_OPEN
              /\ TransitionSet(p) ) =>
                /\ store'[cur.n].state = cur.to
                /\ proc'[p].pc = "transition_srem"
        /\ \A p \in RouterProcs :
            ( proc[p].pc = "transition_srem" /\ TransitionSrem(p) ) =>
                /\ proc[p].cur.n \notin active'
                /\ proc'[p].pc = "transition_sadd"
        /\ \A p \in RouterProcs :
            ( proc[p].pc = "transition_sadd" /\ TransitionSadd(p) ) =>
                /\ store'[proc[p].cur.n].state = proc[p].cur.to
                /\ proc[p].cur.n \in archived'
                /\ proc[p].cur.n \notin active'
                /\ proc'[p] = IdleProc("none", {}) ]_vars

\* C28 witness: a closed, merged pull request of an agent branch has moved
\* the task from PR_OPEN to COMPLETED and its id out of the active set, and
\* the handler is about to add it to the archived set.
C28_Witness ==
    \E p \in RouterProcs :
        /\ proc[p].pc = "transition_sadd"
        /\ proc[p].cur.to = COMPLETED
        /\ store[proc[p].cur.n].state = COMPLETED
        /\ store[proc[p].cur.n].pr_number # None
        /\ proc[p].cur.n \notin active


\* C29.  Command parsing.  For every verb v of the vocabulary, a comment
\* whose one line is /v is dispatched to the handler of v and to no other:
\* the calls the router makes are those of v's handler, with empty
\* arguments, on the task it read.
C29_CommandParsing ==
    [][ \A p \in RouterProcs, i \in 1..Len(CommandVerbs), author \in Humans,
          repo \in Repos, n \in Issues :
            ( /\ proc[p].pc = "idle"
              /\ budget' < budget
              /\ HandleCommentEvent(p, "created", <<Line(CommandVerbs[i])>>,
                                    author, repo, n) ) =>
                proc'[p] = Begun(
                    HandleCommand([command |-> CommandVerbs[i], args |-> <<>>],
                                  store[n], repo, n, author)) ]_vars

\* C30.  /approve-plan.  A comment whose one line is /approve-plan, on an
\* existing task in any state, makes one call, the record_decision of a
\* planner_approval by the comment's author: no transition, no execution.
C30_ApprovePlan ==
    [][ \A p \in RouterProcs, author \in Humans, repo \in Repos, n \in Issues :
            ( /\ proc[p].pc = "idle"
              /\ budget' < budget
              /\ store[n] # NoTask
              /\ HandleCommentEvent(p, "created",
                                    <<Line(<<"approve", "-", "plan">>)>>,
                                    author, repo, n) ) =>
                proc'[p] = Begun(<<RecordIns(n, "planner_approval", author, <<>>)>>) ]_vars


\* C37.  Only locks of another task are conflicts.  acquire_locks(t, repo,
\* paths), called when every live lock on the requested paths is held by t
\* itself, is not turned away by the check of its first path: it does not
\* return acquired:false.
C37_OwnLocksNoConflict ==
    [][ \A q \in LockProcs, t \in LockTasks, r \in Repos, files \in FileSets :
            ( /\ lproc[q].pc = "idle"
              /\ budget' < budget
              /\ \A f \in files : locks[<<r, f>>] \in {None, t}
              /\ CallAcquireLocks(q, t, r, files) ) =>
                ~ ( /\ lproc'[q].pc = "idle"
                    /\ lproc'[q].result.kind = "lock"
                    /\ ~lproc'[q].result.acquired ) ]_vars

\* C40.  release_locks never deletes another task's lock: at the moment
\* release_locks(t, repo) deletes a key, the key is absent or its holder
\* is t.
C40_ReleaseDeletesOwn ==
    [][ \A q \in LockProcs :
            ( lproc[q].pc = "delete" /\ Delete(q) ) =>
                locks[<<lproc[q].repo, lproc[q].path>>]
                    \in {None, lproc[q].task} ]_vars


\* C31.  /agent-pm [mode].  The handler creates the task if there is none,
\* records one pm_invoked decision whose metadata.mode is the given mode,
\* vision when none is given and always one of vision, backlog, feature,
\* and moves a task that is in QUEUED (or that it has just created) to
\* PM_VISION; on a task in another state it only records.
C31_AgentPm ==
    [][ \A p \in RouterProcs, author \in Humans, repo \in Repos, n \in Issues,
          a \in {<<>>, <<" ", "Backlog", " ", "now">>, <<" ", "bogus">>} :
            LET mode == IF a = <<>> THEN <<"vision">>
                        ELSE IF a = <<" ", "bogus">> THEN <<"bogus">>
                        ELSE <<"backlog">>
                none == store[n] = NoTask
            IN
            ( /\ proc[p].pc = "idle"
              /\ budget' < budget
              /\ HandleCommentEvent(p, "created",
                                    <<Line(<<"agent", "-", "pm">>) \o a>>,
                                    author, repo, n) ) =>
                /\ proc'[p] = Begun(
                      (IF none THEN <<CreateIns(repo, n)>> ELSE <<>>)
                      \o <<[RecordIns(n, "pm_invoked", author, <<>>)
                                EXCEPT !.data = mode]>>
                      \o (IF none \/ store[n].state = QUEUED
                          THEN <<TransitionIns(n, PM_VISION, "none", "none")>>
                          ELSE <<>>))
                /\ mode \in {<<"vision">>, <<"backlog">>, <<"feature">>} ]_vars

\* C32.  /handoff <fid>.  On a task in PM_FEATURE_REVIEW the handler records
\* one pm_handoff decision with the feature id and then makes exactly two
\* transitions, to PM_HANDOFF_PLANNER and to PLANNING, where the task is
\* left; in any other state, or without a task, it does nothing.
C32_Handoff ==
    [][ /\ \A p \in RouterProcs, author \in Humans, repo \in Repos,
             n \in Issues :
            ( /\ proc[p].pc = "idle"
              /\ budget' < budget
              /\ HandleCommentEvent(p, "created",
                    <<Line(<<"handoff">>) \o <<" ", "feature", "-", "3">> >>,
                    author, repo, n) ) =>
                /\ UNCHANGED <<store, active, archived>>
                /\ proc'[p] = Begun(
                      IF store[n] # NoTask /\ store[n].state = PM_FEATURE_REVIEW
                      THEN << [RecordIns(n, "pm_handoff", author, <<>>)
                                  EXCEPT !.data = <<"feature", "-", "3">>],
                              TransitionIns(n, PM_HANDOFF_PLANNER, "none", "none"),
                              TransitionIns(n, PLANNING, "none", "none") >>
                      ELSE <<>>)
        /\ \A p \in RouterProcs :
            LET cur == proc[p].cur IN
            ( /\ proc[p].pc = "decision_set"
              /\ cur.type = "pm_handoff"
              /\ RecordDecisionSet(p) ) =>
                /\ store[cur.n].state = PM_FEATURE_REVIEW
                /\ store'[cur.n].state = PM_FEATURE_REVIEW
                /\ Len(store'[cur.n].decisions) = Len(store[cur.n].decisions) + 1
        /\ \A p \in RouterProcs :
            LET cur == proc[p].cur IN
            ( /\ proc[p].pc = "transition_set"
              /\ cur.to = PM_HANDOFF_PLANNER
              /\ TransitionSet(p) ) =>
                /\ store[cur.n].state = PM_FEATURE_REVIEW
                /\ store'[cur.n].state = PM_HANDOFF_PLANNER
                /\ proc'[p].cur = TransitionIns(cur.n, PLANNING, "none", "none")
                /\ proc'[p].todo = <<>>
        /\ \A p \in RouterProcs :
            LET cur == proc[p].cur IN
            ( /\ proc[p].pc = "transition_set"
              /\ cur.to = PLANNING
              /\ store[cur.n].state = PM_HANDOFF_PLANNER
              /\ TransitionSet(p) ) =>
                /\ store'[cur.n].state = PLANNING
                /\ proc'[p] = IdleProc("none", {}) ]_vars

\* C32 witness: a /handoff has been recorded and the task has gone through
\* PM_HANDOFF_PLANNER to PLANNING, where the handler left it.
C32_Witness ==
    \E p \in RouterProcs, n \in Issues :
        /\ proc[p] = IdleProc("none", {})
        /\ store[n] # NoTask
        /\ store[n].state = PLANNING
        /\ store[n].decisions # <<>>
        /\ store[n].decisions[Len(store[n].decisions)].type = "pm_handoff"


\* C35.  A delivery whose signature fails verification is answered 401
\* before any handler runs: no task record, set membership or lock changes.
\* A check_run event or an event of a kind the endpoint does not route,
\* correctly signed, is answered 200 and changes nothing either.
C35_Endpoint ==
    [][ \A p \in RouterProcs, d \in Deliveries :
          \A signature \in Signatures(d[2]) :
            LET signed == /\ signature.scheme = "sha256="
                          /\ signature.hex = Hmac(github_webhook_secret, d[2])
            IN
            ( /\ proc[p].pc = "idle"
              /\ budget' < budget
              /\ GithubWebhook(p, d[1], d[2], signature) ) =>
                /\ ~signed =>
                      /\ proc'[p] = IdleProc("HTTPException", {})
                      /\ UNCHANGED <<store, active, archived, locks>>
                /\ (signed /\ d[1] \in {"check_run", "push"}) =>
                      /\ proc'[p] = IdleProc("none", {})
                      /\ UNCHANGED <<store, active, archived, locks>> ]_vars

\* C35 witness: a delivery that would have created a task had it been
\* verified was answered 401, and a second delivery has been answered.
C35_Witness ==
    \E p \in RouterProcs :
        /\ proc[p] = IdleProc("HTTPException", {})
        /\ budget = 0
        /\ \A n \in Issues : store[n] = NoTask


\* C36.  Webhooks are safe to replay.  The issues/opened event of a
\* labelled issue is delivered and, its handling over, delivered again: when
\* the last handling has ended without an error the task is where one
\* delivery without a failure leaves it, in PLAN_REVIEW (or in PLANNING, if
\* the planner returned without a plan), whatever became of the first.
C36_ReplaySafe ==
    \A p \in RouterProcs, n \in Issues :
        ( /\ budget < MaxOps
          /\ proc[p] = IdleProc("none", {})
          /\ store[n] # NoTask ) =>
            store[n].state \in {PLAN_REVIEW, PLANNING}


\* C33.  /agent-stop signals cancellation: once the stop has been processed
\* (its agent_stop decision is the last on the task and its handler is
\* over), a handler whose agent run was in flight makes no further
\* transition of the task: where it would begin the transition that follows
\* the agent's result, it stops instead.
C33_StopCancels ==
    [][ \A p \in Procs :
          LET n == proc[p].cur.n
              d == store[n].decisions
          IN
          ( /\ proc[p].pc = "transition_get"
            /\ proc[p].cur.to \in {PLAN_REVIEW, PR_OPEN, FAILED}
            /\ store[n] # NoTask
            /\ d # <<>>
            /\ d[Len(d)].type = "agent_stop"
            /\ \A q \in Procs \ {p} : proc[q].pc = "idle"
            /\ TransitionGet(p) ) =>
              proc'[p].pc = "idle" ]_vars

\* C38.  Two qualifying issues events for one issue processed concurrently
\* create exactly one task and run planning once: create_task never writes
\* over a task that is there, and no two planner runs for the issue are in
\* progress together.
C38_OneTaskOnePlanning ==
    [][ /\ \A p \in Procs :
            ( proc[p].pc = "create_set" /\ CreateTaskSet(p) ) =>
                store[proc[p].cur.n] = NoTask
        /\ \A p, q \in Procs :
            ( /\ p # q
              /\ proc'[p].pc = "agent" /\ proc'[p].cur.type = "plan"
              /\ proc'[q].pc = "agent" /\ proc'[q].cur.type = "plan" ) =>
                proc'[p].cur.n # proc'[q].cur.n ]_vars

\* C39.  Two /approve comments for one task in PLAN_REVIEW processed
\* concurrently trigger execution at most once: no two handlers are in the
\* worker's implement run for the same task.
C39_OneExecution ==
    \A p, q \in Procs :
        ( /\ p # q
          /\ proc[p].pc = "agent" /\ proc[p].cur.type = "implement"
          /\ proc[q].pc = "agent" /\ proc[q].cur.type = "implement" ) =>
            proc[p].cur.n # proc[q].cur.n


====
